---- MODULE Spec2Model ----
(***************************************************************************)
(* Model of renomear_comprovantes (v16 "Bradesco PIX" and the sanitized    *)
(* variant): extraction of payee and amount from the text of a receipt     *)
(* page, classification of the payer, the per-run occurrence counter and   *)
(* the construction of the output file name.                               *)
(*                                                                         *)
(* A Python str is modelled as a sequence of one-character strings, so     *)
(* that upper(), strip(), replace(), split(), slicing and the regular      *)
(* expressions are computed character by character as the code does.       *)
(***************************************************************************)
EXTENDS Integers, Sequences, FiniteSets, TLC

VARIABLES
    versao,             \* which of the two scripts runs: "v16" or "sanitized"
    pc,                 \* position of the running function
    texto,              \* the text given to the extractors
    valores_encontrados,\* extrair_valor: list of candidates
    candidatos,         \* extrair_beneficiario: list of validated candidates
    unicos,             \* extrair_valor / extrair_beneficiario: dedup dict (insertion order)
    resultado,          \* return value of the extractor
    debug_info,         \* diagnostics dict filled by the extractors
    entrada,            \* PASTA_ENTRADA: the documents, each with the texts of its pages
    saida,              \* PASTA_SAIDA: the files written, by payer folder and name
    temp_parts,         \* TEMP_PARTS: the one-page parts
    partes,             \* main: sorted list of part names
    idx,                \* main: number of parts the loop has gone through
    contador,           \* main: occurrences per key (empresa, beneficiario, valor)
    processed_sources,  \* main: parts already handled
    arquivos_log,       \* main: rows of the CSV
    debug_logs,         \* main: diagnostics of each page
    debug_log,          \* the file DEBUG_LOG
    zip_final,          \* the file ZIP_FINAL: the paths it holds
    log_csv,            \* the file LOG_CSV
    execucao,           \* number of runs of main started
    ocorrencias         \* history: chave, cnt, nome_arquivo and dest of every page processed

extratorVars == <<texto, valores_encontrados, candidatos, unicos, resultado, debug_info>>

mainVars == <<entrada, saida, temp_parts, partes, idx, contador, processed_sources, arquivos_log,
              debug_logs, debug_log, zip_final, log_csv, execucao, ocorrencias>>

vars == <<versao, pc, extratorVars, mainVars>>

(***************************************************************************)
(* Characters                                                              *)
(***************************************************************************)
Digit == {"0", "1", "2", "3", "4", "5", "6", "7", "8", "9"}

UpperSeq == <<"A", "B", "C", "D", "E", "F", "G", "H", "I", "J", "K", "L", "M",
              "N", "O", "P", "Q", "R", "S", "T", "U", "V", "W", "X", "Y", "Z",
              "Á", "Ã", "Ç", "É", "Ó", "Ê", "Í", "Õ", "Ú", "À", "Â">>

LowerSeq == <<"a", "b", "c", "d", "e", "f", "g", "h", "i", "j", "k", "l", "m",
              "n", "o", "p", "q", "r", "s", "t", "u", "v", "w", "x", "y", "z",
              "á", "ã", "ç", "é", "ó", "ê", "í", "õ", "ú", "à", "â">>

AsciiUpper == {UpperSeq[i] : i \in 1..26}
AsciiLower == {LowerSeq[i] : i \in 1..26}
AZ == AsciiUpper \cup AsciiLower           \* [A-Z] or [a-zA-Z] under re.IGNORECASE
Accented == {UpperSeq[i] : i \in 27..Len(UpperSeq)} \cup {LowerSeq[i] : i \in 27..Len(UpperSeq)}
WS == {" ", "\n"}                           \* \s
Punct == {".", ",", ":", "/", "-", "$", "(", ")", "&", "*", "_", "\\"}
ESZETT == "ß"                               \* a letter that str.upper() writes as two: "SS"
Sigma == Digit \cup AZ \cup Accented \cup WS \cup Punct \cup {ESZETT}   \* the characters of a text

\* str.upper() / str.lower() of one character
UpperOf == [c \in Sigma |-> IF \E i \in 1..Len(UpperSeq) : LowerSeq[i] = c
                            THEN UpperSeq[CHOOSE i \in 1..Len(UpperSeq) : LowerSeq[i] = c] ELSE c]
LowerOf == [c \in Sigma |-> IF \E i \in 1..Len(UpperSeq) : UpperSeq[i] = c
                            THEN LowerSeq[CHOOSE i \in 1..Len(UpperSeq) : UpperSeq[i] = c] ELSE c]

(***************************************************************************)
(* str helpers                                                             *)
(***************************************************************************)
\* s[a:b] with 1-based inclusive-exclusive positions a <= b
Slice(s, a, b) == [k \in 1..(b - a) |-> s[a + k - 1]]

\* lit occurs in s starting at position i (case-sensitive)
StartsAt(s, i, lit) ==
    /\ i + Len(lit) - 1 <= Len(s)
    /\ \A k \in 1..Len(lit) : s[i + k - 1] = lit[k]

\* s[a:b] where a or b may lie beyond the end of s: the positions are cut to the length
SliceAte(s, a, b) ==
    IF a > Len(s) THEN <<>>
    ELSE Slice(s, a, IF b > Len(s) + 1 THEN Len(s) + 1 ELSE b)

\* Python's `lit in s`
Contains(s, lit) == \E i \in 1..(Len(s) + 1) : StartsAt(s, i, lit)

\* str.strip(): whitespace removed at both ends
strip(s) ==
    IF \A i \in 1..Len(s) : s[i] \in WS THEN <<>>
    ELSE LET a == CHOOSE i \in 1..Len(s) : s[i] \notin WS /\ \A j \in 1..(i - 1) : s[j] \in WS
             b == CHOOSE i \in 1..Len(s) : s[i] \notin WS /\ \A j \in (i + 1)..Len(s) : s[j] \in WS
         IN  Slice(s, a, b + 1)

\* str.replace(c, rep) for a one-character c; rep is a (possibly empty) string
RECURSIVE replace(_, _, _)
replace(s, c, rep) ==
    IF \A i \in 1..Len(s) : s[i] # c THEN s
    ELSE LET i == CHOOSE k \in 1..Len(s) : s[k] = c /\ \A j \in 1..(k - 1) : s[j] # c
         IN  Slice(s, 1, i) \o rep \o replace(Slice(s, i + 1, Len(s) + 1), c, rep)

\* str.upper() / str.lower(): character by character, except that the upper case of
\* ESZETT is the two letters "SS" (the result is then longer than s)
upper(s) == replace([i \in 1..Len(s) |-> UpperOf[s[i]]], ESZETT, <<"S", "S">>)
lower(s) == [i \in 1..Len(s) |-> LowerOf[s[i]]]

(***************************************************************************)
(* Regular expressions (module re, flag IGNORECASE on every pattern of the *)
(* code).  A pattern is a sequence of elements; the matcher tries the      *)
(* alternatives in the order of Python's backtracking engine (greedy:      *)
(* longest repetition first, lazy: shortest first, alternation: left       *)
(* branch first) and returns the first complete match.                     *)
(***************************************************************************)
Lit(str)           == [t |-> "lit", s |-> str]                               \* literal text, re.IGNORECASE
LitC(str)          == [t |-> "litc", s |-> str]                              \* literal text, case-sensitive
Cls(C, lo, hi)     == [t |-> "cls", c |-> C, lo |-> lo, hi |-> hi, lazy |-> FALSE] \* [C]{lo,hi}
LazyCls(C, lo, hi) == [t |-> "cls", c |-> C, lo |-> lo, hi |-> hi, lazy |-> TRUE]  \* [C]{lo,hi}?
One(C)             == Cls(C, 1, 1)                                           \* [C]
Plus(C)            == Cls(C, 1, -1)                                          \* [C]+   (hi = -1: unbounded)
Star(C)            == Cls(C, 0, -1)                                          \* [C]*
LazyPlus(C)        == LazyCls(C, 1, -1)                                      \* [C]+?
LazyStar(C)        == LazyCls(C, 0, -1)                                      \* [C]*?
Alt(branches)      == [t |-> "alt", alts |-> branches]                       \* (?:a|b|...)
Opt(seq)           == Alt(<<seq, <<>> >>)                                    \* (?:seq)?
Rep(seq, lo, hi)   == [t |-> "rep", body |-> seq, lo |-> lo, hi |-> hi]      \* (?:seq){lo,hi}
NegLook(seq)       == [t |-> "neglook", body |-> seq]                        \* (?!seq)
GOpen              == [t |-> "gopen"]                                        \* (   of group 1
GClose             == [t |-> "gclose"]                                       \* )   of group 1
Bol                == [t |-> "bol"]                                          \* ^  (no MULTILINE)
Eos                == [t |-> "eos"]                                          \* $  (no MULTILINE)
WordB              == [t |-> "wordb"]                                        \* \b

NoMatch == [ok |-> FALSE, start |-> 0, end |-> 0, gs |-> 0, ge |-> 0]

\* the element of a one-element set; {f(x) : x \in {e}} evaluates e once and binds x to its value
The(S) == CHOOSE r \in S : TRUE

\* literal comparison under IGNORECASE
LitAt(s, i, lit) ==
    /\ i + Len(lit) - 1 <= Len(s)
    /\ \A k \in 1..Len(lit) : UpperOf[s[i + k - 1]] = UpperOf[lit[k]]

\* number of consecutive characters of class C from position i, at most hi (hi < 0: no limit)
RunLen(s, i, C, hi) ==
    LET limit == IF hi < 0 \/ hi > Len(s) + 1 - i THEN Len(s) + 1 - i ELSE hi IN
    CHOOSE n \in 0..limit :
        /\ \A j \in 0..(n - 1) : s[i + j] \in C
        /\ n = limit \/ s[i + n] \notin C

WordChar == Digit \cup AZ \cup Accented \cup {"_", ESZETT}                            \* \w

\* \b at position i (between s[i-1] and s[i])
AtWordB(s, i) ==
    LET before == i > 1 /\ s[i - 1] \in WordChar
        after  == i <= Len(s) /\ s[i] \in WordChar
    IN  before # after

\* $ at position i: the end, or just before a final newline
AtEos(s, i) == i = Len(s) + 1 \/ (i = Len(s) /\ s[i] = "\n")

RECURSIVE M(_, _, _, _, _)
RECURSIVE MCls(_, _, _, _, _, _, _)
RECURSIVE MAlt(_, _, _, _, _, _, _)

\* match elems[k..] at position i of s; gs, ge: span of group 1 so far
M(elems, k, s, i, g) ==
    IF k > Len(elems) THEN [ok |-> TRUE, start |-> 0, end |-> i, gs |-> g[1], ge |-> g[2]]
    ELSE LET e == elems[k] IN
         CASE e.t = "lit"     -> IF LitAt(s, i, e.s) THEN M(elems, k + 1, s, i + Len(e.s), g)
                                 ELSE NoMatch
           [] e.t = "litc"    -> IF StartsAt(s, i, e.s) THEN M(elems, k + 1, s, i + Len(e.s), g)
                                 ELSE NoMatch
           [] e.t = "cls"     -> The({ IF r < e.lo THEN NoMatch
                                       ELSE MCls(elems, k, s, i, g, e.lo, r) :
                                       r \in {RunLen(s, i, e.c, e.hi)} })
           [] e.t = "alt"     -> MAlt(elems, k, s, i, g, e.alts, 1)
           [] e.t = "rep"     -> The({ IF more.ok THEN more
                                       ELSE IF e.lo = 0 THEN M(elems, k + 1, s, i, g)
                                       ELSE NoMatch :
                                       more \in { IF e.hi = 0 THEN NoMatch
                                                  ELSE M(e.body \o <<Rep(e.body,
                                                                         IF e.lo > 0 THEN e.lo - 1 ELSE 0,
                                                                         IF e.hi > 0 THEN e.hi - 1 ELSE e.hi)>>
                                                         \o SubSeq(elems, k + 1, Len(elems)),
                                                         1, s, i, g) } })
           [] e.t = "neglook" -> IF M(e.body, 1, s, i, g).ok THEN NoMatch
                                 ELSE M(elems, k + 1, s, i, g)
           [] e.t = "gopen"   -> M(elems, k + 1, s, i, <<i, g[2]>>)
           [] e.t = "gclose"  -> M(elems, k + 1, s, i, <<g[1], i>>)
           [] e.t = "bol"     -> IF i = 1 THEN M(elems, k + 1, s, i, g) ELSE NoMatch
           [] e.t = "eos"     -> IF AtEos(s, i) THEN M(elems, k + 1, s, i, g) ELSE NoMatch
           [] e.t = "wordb"   -> IF AtWordB(s, i) THEN M(elems, k + 1, s, i, g) ELSE NoMatch

MinOf(S) == CHOOSE n \in S : \A x \in S : n <= x
MaxOf(S) == CHOOSE n \in S : \A x \in S : n >= x

\* repetition of a class over lo..r characters: the engine tries the lengths
\* in order (greedy: r down to lo; lazy: lo up to r) and keeps the first after
\* which the rest of the pattern matches.  The preferred length is tried first;
\* only if it fails are the others evaluated (each once, as <<length, match>>).
MCls(elems, k, s, i, g, lo, r) ==
    The({ IF first.ok \/ lo = r THEN first
          ELSE The({ The({ IF lens = {} THEN NoMatch
                           ELSE The({ (CHOOSE p \in tries : p[1] = n)[2] :
                                      n \in {IF elems[k].lazy THEN MinOf(lens) ELSE MaxOf(lens)} }) :
                           lens \in {{p[1] : p \in {q \in tries : q[2].ok}}} }) :
                     tries \in {{ <<n, M(elems, k + 1, s, i + n, g)>> :
                                  n \in IF elems[k].lazy THEN (lo + 1)..r ELSE lo..(r - 1) }} }) :
          first \in {M(elems, k + 1, s, i + (IF elems[k].lazy THEN lo ELSE r), g)} })

\* alternation: the first branch after which the rest of the pattern matches
MAlt(elems, k, s, i, g, alts, a) ==
    IF a > Len(alts) THEN NoMatch
    ELSE The({ IF m.ok THEN m ELSE MAlt(elems, k, s, i, g, alts, a + 1) :
               m \in {M(alts[a] \o SubSeq(elems, k + 1, Len(elems)), 1, s, i, g)} })

\* the attempts to match pat at each position of s
Matches(pat, s) == {[M(pat, 1, s, j, <<0, 0>>) EXCEPT !.start = j] : j \in 1..(Len(s) + 1)}

\* the leftmost match that starts at position i or later; ms = Matches(pat, s)
SearchFrom(ms, i) ==
    The({ IF starts = {} THEN NoMatch
          ELSE The({ CHOOSE m \in ms : m.ok /\ m.start = j : j \in {MinOf(starts)} }) :
          starts \in {{m.start : m \in {x \in ms : x.ok /\ x.start >= i}}} })

\* re.search(pat, s)
search(pat, s) == The({SearchFrom(ms, 1) : ms \in {Matches(pat, s)}})

\* m.group(1)
group1(s, m) == Slice(s, m.gs, m.ge)

\* re.finditer(pat, s): the successive non-overlapping matches, as their groups 1
RECURSIVE FindIterFrom(_, _, _)
FindIterFrom(s, ms, i) ==
    The({ IF ~m.ok THEN <<>>
          ELSE <<group1(s, m)>>
               \o FindIterFrom(s, ms, IF m.end > m.start THEN m.end ELSE m.end + 1) :
          m \in {SearchFrom(ms, i)} })

finditer(pat, s) == The({FindIterFrom(s, ms, 1) : ms \in {Matches(pat, s)}})

(***************************************************************************)
(* dict helpers: a dict with string keys is a function on its key set; a   *)
(* dict whose iteration order matters is a sequence of its values, in      *)
(* insertion order.                                                        *)
(***************************************************************************)
EmptyDict == [k \in {} |-> 0]
Put(d, k, v) == [x \in (DOMAIN d) \cup {k} |-> IF x = k THEN v ELSE d[x]]
Has(d, k) == k \in DOMAIN d

\* the sequences of at most n elements of S
SeqsAte(S, n) == UNION {[1..k -> S] : k \in 0..n}

\* no extractor has run
SemExtracao ==
    /\ texto = <<>>
    /\ valores_encontrados = <<>>
    /\ candidatos = <<>>
    /\ unicos = <<>>
    /\ resultado = <<>>
    /\ debug_info = EmptyDict

\* main has not run: empty output folder, no parts, no logs
SemExecucao ==
    /\ saida = {}
    /\ temp_parts = {}
    /\ partes = <<>>
    /\ idx = 0
    /\ contador = EmptyDict
    /\ processed_sources = {}
    /\ arquivos_log = <<>>
    /\ debug_logs = <<>>
    /\ debug_log = <<>>
    /\ zip_final = {}
    /\ log_csv = <<>>
    /\ execucao = 0
    /\ ocorrencias = <<>>

(***************************************************************************)
(* float(): the text is digits with "." as the decimal point.  The value   *)
(* is kept as an exact decimal: integer digits without leading zeros and   *)
(* fraction digits without trailing zeros (two texts give equal floats     *)
(* exactly when these agree, for the 15 significant digits a double holds).*)
(***************************************************************************)
CountOf(s, c) == Cardinality({i \in 1..Len(s) : s[i] = c})

\* float(s) raises ValueError
FloatFails(s) ==
    \/ CountOf(s, ".") > 1
    \/ \A i \in 1..Len(s) : s[i] \notin Digit
    \/ \E i \in 1..Len(s) : s[i] \notin Digit \cup {"."}

RECURSIVE StripLeadingZeros(_)
StripLeadingZeros(s) ==
    IF s # <<>> /\ Head(s) = "0" THEN StripLeadingZeros(Tail(s)) ELSE s

RECURSIVE StripTrailingZeros(_)
StripTrailingZeros(s) ==
    IF s # <<>> /\ s[Len(s)] = "0" THEN StripTrailingZeros(SubSeq(s, 1, Len(s) - 1)) ELSE s

\* float(s) for a text on which it does not fail
Float(s) ==
    LET dot == IF CountOf(s, ".") = 0 THEN Len(s) + 1
               ELSE CHOOSE i \in 1..Len(s) : s[i] = "."
    IN  [int  |-> StripLeadingZeros(Slice(s, 1, dot)),
         frac |-> StripTrailingZeros(Slice(s, dot + 1, Len(s) + 1))]

Positive(f) == f.int # <<>> \/ f.frac # <<>>

(***************************************************************************)
(* extrair_valor                                                           *)
(***************************************************************************)
\* literal texts of the patterns and the sentinel
LIT_VALOR == <<"V", "a", "l", "o", "r">>
LIT_PRINCIPAL == <<"p", "r", "i", "n", "c", "i", "p", "a", "l">>
LIT_TOTAL == <<"t", "o", "t", "a", "l">>
LIT_PAGO == <<"p", "a", "g", "o">>
LIT_DO == <<"d", "o">>
LIT_PAGAMENTO == <<"p", "a", "g", "a", "m", "e", "n", "t", "o">>
LIT_FAVORECIDO_DP == <<"F", "a", "v", "o", "r", "e", "c", "i", "d", "o", ":">>
LIT_VALOR_RS == <<"V", "a", "l", "o", "r", ":", "R", "$">>
LIT_RS == <<"R", "$">>
LIT_TARIFA == <<"R", "$", "0", ",", "0", "0">>
LIT_JUROS == <<"J", "u", "r", "o", "s">>
LIT_MULTA == <<"M", "u", "l", "t", "a">>
LIT_DESCONTO == <<"D", "e", "s", "c", "o", "n", "t", "o">>
LIT_BONIF == <<"B", "o", "n", "i", "f">>
VALOR_NAO_ENCONTRADO == <<"V", "A", "L", "O", "R", "_", "N", "A", "O", "_", "E", "N", "C", "O", "N", "T", "R", "A", "D", "O">>

NumCh == Digit \cup {".", ","}                       \* [\d\.\,]

\* \d{2}\.\d{3}\.\d{3}/\d{4}-\d{2}
CNPJ_RE == <<Cls(Digit, 2, 2), Lit(<<".">>), Cls(Digit, 3, 3), Lit(<<".">>), Cls(Digit, 3, 3),
             Lit(<<"/">>), Cls(Digit, 4, 4), Lit(<<"-">>), Cls(Digit, 2, 2)>>

\* \d{3}\.\d{3}\.\d{3}-\d{2}
CPF_RE == <<Cls(Digit, 3, 3), Lit(<<".">>), Cls(Digit, 3, 3), Lit(<<".">>), Cls(Digit, 3, 3),
            Lit(<<"-">>), Cls(Digit, 2, 2)>>

\* (\d{1,3}(?:\.\d{3})*,\d{2})\s+R\$0,00
ValorAntesTarifa_RE ==
    <<GOpen, Cls(Digit, 1, 3), Rep(<<Lit(<<".">>), Cls(Digit, 3, 3)>>, 0, -1), Lit(<<",">>),
      Cls(Digit, 2, 2), GClose, Plus(WS), Lit(LIT_TARIFA)>>

\* (?:CNPJ|CPF)\s+(\d{1,3}(?:\.\d{3})*,\d{2})\s+R\$0,00
ValorAposCnpj_RE == <<Alt(<<CNPJ_RE, CPF_RE>>), Plus(WS)>> \o ValorAntesTarifa_RE

\* [:\s]*R?\$?\s*([\d\.\,]+)
ValorTail == <<Star({":"} \cup WS), Cls({"R", "r"}, 0, 1), Cls({"$"}, 0, 1), Star(WS),
               GOpen, Plus(NumCh), GClose>>

\* the list `patterns`: (regex, prioridade, tipo)
patterns_v16 == <<
    [re |-> <<Lit(LIT_VALOR), Plus(WS), Lit(LIT_PRINCIPAL)>> \o ValorTail,
     prioridade |-> 1, tipo |-> "principal"],
    [re |-> <<Lit(LIT_VALOR), Plus(WS), Lit(LIT_TOTAL), Plus(WS), Lit(LIT_PAGO)>> \o ValorTail,
     prioridade |-> 1, tipo |-> "total_pago"],
    [re |-> <<Lit(LIT_VALOR), Plus(WS), Lit(LIT_DO), Plus(WS), Lit(LIT_PAGAMENTO)>> \o ValorTail,
     prioridade |-> 2, tipo |-> "pagamento"],
    [re |-> <<Lit(LIT_VALOR), Plus(WS), Lit(LIT_TOTAL)>> \o ValorTail,
     prioridade |-> 3, tipo |-> "total"],
    [re |-> <<Lit(LIT_FAVORECIDO_DP), LazyStar(Sigma \ {"\n"}), Lit(LIT_VALOR)>> \o ValorTail,
     prioridade |-> 2, tipo |-> "favorecido_valor"],
    [re |-> <<Alt(<< <<Bol>>, <<Lit(<<"\n">>)>> >>), Lit(LIT_VALOR)>> \o ValorTail,
     prioridade |-> 4, tipo |-> "valor_linha"],
    [re |-> <<Lit(LIT_VALOR_RS), Star(WS), GOpen, Plus(NumCh), GClose>>,
     prioridade |-> 1, tipo |-> "bradesco_pix_valor"],
    [re |-> <<Lit(LIT_RS), Star(WS), GOpen, Plus(NumCh), GClose,
              NegLook(<<Star(WS), Alt(<< <<Lit(LIT_JUROS)>>, <<Lit(LIT_MULTA)>>,
                                         <<Lit(LIT_DESCONTO)>>, <<Lit(LIT_BONIF)>> >>)>>)>>,
     prioridade |-> 5, tipo |-> "rs_isolado"] >>

patterns_sanitized == <<
    [re |-> <<Lit(LIT_VALOR), Plus(WS), Lit(LIT_PRINCIPAL)>> \o ValorTail,
     prioridade |-> 1, tipo |-> "principal"],
    [re |-> <<Lit(LIT_VALOR), Plus(WS), Lit(LIT_TOTAL), Plus(WS), Lit(LIT_PAGO)>> \o ValorTail,
     prioridade |-> 1, tipo |-> "total_pago"],
    [re |-> <<Lit(LIT_VALOR), Plus(WS), Lit(LIT_DO), Plus(WS), Lit(LIT_PAGAMENTO)>> \o ValorTail,
     prioridade |-> 2, tipo |-> "pagamento"],
    [re |-> <<Lit(LIT_VALOR), Plus(WS), Lit(LIT_TOTAL)>> \o ValorTail,
     prioridade |-> 3, tipo |-> "total"],
    [re |-> <<Alt(<< <<Bol>>, <<Lit(<<"\n">>)>> >>), Lit(LIT_VALOR)>> \o ValorTail,
     prioridade |-> 4, tipo |-> "valor_linha"],
    [re |-> <<Lit(LIT_RS), Star(WS), GOpen, Plus(NumCh), GClose>>,
     prioridade |-> 5, tipo |-> "rs_isolado"] >>

patterns(v) == IF v = "v16" THEN patterns_v16 ELSE patterns_sanitized

\* (mutant) the thousands separators are removed, as the loop over patterns does
ValorBradesco_semMilhar(val, tipo) ==
    LET val_conv == replace(replace(val, ".", <<>>), ",", <<".">>) IN
    IF FloatFails(val_conv) THEN <<>>
    ELSE The({ IF Positive(f)
               THEN <<[valor |-> replace(val, ".", <<>>), tipo |-> tipo, prioridade |-> 0, float |-> f,
                       captura |-> val]>>
               ELSE <<>> :
               f \in {Float(val_conv)} })

\* one candidate of the priority-0 detectors: the capture is kept as it is
\* (captura is not a key of the code's dict: it records m.group(1) for the properties)
ValorBradesco(val, tipo) ==
    LET val_conv == replace(replace(val, ".", <<>>), ",", <<".">>) IN
    IF FloatFails(val_conv) THEN <<>>
    ELSE The({ IF Positive(f)
               THEN <<[valor |-> val, tipo |-> tipo, prioridade |-> 0, float |-> f, captura |-> val]>>
               ELSE <<>> :
               f \in {Float(val_conv)} })

\* the priority-0 detectors of v16; the second is tried only when the list is still empty
ValoresBradesco(txt) ==
    LET Primeiro(m1) ==
            IF m1.ok THEN ValorBradesco(strip(group1(txt, m1)), "bradesco_pix_apos_cnpj") ELSE <<>>
        Segundo(m2) ==
            IF m2.ok THEN ValorBradesco(strip(group1(txt, m2)), "bradesco_pix_antes_tarifa") ELSE <<>>
    IN  The({ IF c1 # <<>> THEN c1
              ELSE The({Segundo(m2) : m2 \in {search(ValorAntesTarifa_RE, txt)}}) :
              c1 \in {Primeiro(m1) : m1 \in {search(ValorAposCnpj_RE, txt)}} })

\* (mutant) the test valor_float > 0 is missing
ValorCandidato_semTeste(captura, p) ==
    LET val0     == strip(captura)
        val      == IF Contains(val0, <<",">>) /\ Contains(val0, <<".">>)
                    THEN replace(val0, ".", <<>>) ELSE val0
        val_conv == replace(val, ",", <<".">>)
    IN  IF FloatFails(val_conv) THEN <<>>
        ELSE <<[valor |-> replace(val, ".", <<",">>), tipo |-> p.tipo,
                prioridade |-> p.prioridade, float |-> Float(val_conv), captura |-> val0]>>

\* body of the inner loop of the patterns: one match, zero or one candidate
ValorCandidato(captura, p) ==
    LET val0     == strip(captura)
        val      == IF Contains(val0, <<",">>) /\ Contains(val0, <<".">>)
                    THEN replace(val0, ".", <<>>) ELSE val0
        val_conv == replace(val, ",", <<".">>)
    IN  IF FloatFails(val_conv) THEN <<>>          \* except: continue
        ELSE The({ IF Positive(f)
                   THEN <<[valor |-> replace(val, ".", <<",">>), tipo |-> p.tipo,
                           prioridade |-> p.prioridade, float |-> f, captura |-> val0]>>
                   ELSE <<>> :
                   f \in {Float(val_conv)} })

RECURSIVE ValoresDoPadrao(_, _, _)
ValoresDoPadrao(caps, j, p) ==
    IF j > Len(caps) THEN <<>>
    ELSE ValorCandidato(caps[j], p) \o ValoresDoPadrao(caps, j + 1, p)

RECURSIVE ValoresDosPadroes(_, _, _)
ValoresDosPadroes(txt, pats, k) ==
    IF k > Len(pats) THEN <<>>
    ELSE The({ValoresDoPadrao(caps, 1, pats[k]) : caps \in {finditer(pats[k].re, txt)}})
         \o ValoresDosPadroes(txt, pats, k + 1)

\* position of the entry of the ordered dict u with float key f (0: absent)
IndexOfFloat(u, f) ==
    IF \E i \in 1..Len(u) : u[i].float = f THEN CHOOSE i \in 1..Len(u) : u[i].float = f ELSE 0

\* (mutant) an equal prioridade also replaces the entry
AtualizaUnicosValor_le(u, v) ==
    The({ IF i = 0 THEN Append(u, v)
          ELSE IF v.prioridade <= u[i].prioridade THEN [u EXCEPT ![i] = v]
          ELSE u :
          i \in {IndexOfFloat(u, v.float)} })

\* body of the dedup loop: unicos[v['float']] = v when absent or of strictly lower prioridade
AtualizaUnicosValor(u, v) ==
    The({ IF i = 0 THEN Append(u, v)
          ELSE IF v.prioridade < u[i].prioridade THEN [u EXCEPT ![i] = v]
          ELSE u :
          i \in {IndexOfFloat(u, v.float)} })

\* the dedup loop over valores_encontrados
RECURSIVE DedupValores(_, _, _)
DedupValores(vals, k, u) ==
    IF k > Len(vals) THEN u
    ELSE The({DedupValores(vals, k + 1, u2) : u2 \in {AtualizaUnicosValor(u, vals[k])}})

\* (mutant) max() in place of min()
MinPrioridade_max(u) ==
    u[CHOOSE i \in 1..Len(u) :
        /\ \A j \in 1..Len(u) : u[i].prioridade >= u[j].prioridade
        /\ \A j \in 1..(i - 1) : u[j].prioridade < u[i].prioridade]

\* min(unicos.values(), key=prioridade): the first entry of least prioridade
MinPrioridade(u) ==
    u[CHOOSE i \in 1..Len(u) :
        /\ \A j \in 1..Len(u) : u[i].prioridade <= u[j].prioridade
        /\ \A j \in 1..(i - 1) : u[j].prioridade > u[i].prioridade]

ValoresEncontrados(txt, v) ==
    (IF v = "v16" THEN ValoresBradesco(txt) ELSE <<>>) \o ValoresDosPadroes(txt, patterns(v), 1)

\* the whole function: return value, the two intermediate collections and debug_info
extrair_valor(txt, dbg, v) ==
    IF txt = <<>>
    THEN [ret |-> VALOR_NAO_ENCONTRADO, valores |-> <<>>, unicos |-> <<>>,
          debug |-> Put(dbg, "valor_erro", "Texto vazio")]
    ELSE LET Dbg1(vals) ==
                 IF v = "v16"
                 THEN Put(dbg, "valores_encontrados",
                          [i \in 1..Len(vals) |-> <<vals[i].tipo, vals[i].valor>>])
                 ELSE dbg
             Decisao(vals, dbg1) ==
                 IF vals # <<>>
                 THEN The({ The({ [ret |-> melhor.valor, valores |-> vals, unicos |-> u,
                                   debug |-> Put(dbg1, "valor_selecionado",
                                                 <<melhor.tipo, melhor.valor>>)] :
                                  melhor \in {MinPrioridade(u)} }) :
                            u \in {DedupValores(vals, 1, <<>>)} })
                 ELSE [ret |-> VALOR_NAO_ENCONTRADO, valores |-> vals, unicos |-> <<>>,
                       debug |-> Put(dbg1, "valor_erro", "Nenhum padrão")]
         IN  The({ The({Decisao(vals, dbg1) : dbg1 \in {Dbg1(vals)}}) :
                   vals \in {ValoresEncontrados(txt, v)} })

(***************************************************************************)
(* Study of extrair_valor: the text is any concatenation of at most        *)
(* MaxFrags receipt fragments; one step runs the function.                 *)
(***************************************************************************)
MaxFrags == 2

FragmentosValor == <<
    <<"V", "a", "l", "o", "r", " ", "p", "r", "i", "n", "c", "i", "p", "a", "l", ":", " ", "R", "$", " ", "1", "0", "0", ",", "0", "0", "\n">>,
    <<"R", "$", " ", "9", "9", "9", ",", "0", "0", " ">>,
    <<"R", "$", " ", "5", "0", ",", "0", "0">>,
    <<"V", "a", "l", "o", "r", " ", "t", "o", "t", "a", "l", " ", "p", "a", "g", "o", " ", "1", "0", "0", ",", "0", " ">>,
    <<"R", "$", " ", "1", ".", "2", "3", "4", ",", "5", "6", " ">>,
    <<"V", "a", "l", "o", "r", ":", " ", "1", ".", "2", ".", "3", " ", "R", "$", " ", "0", ",", "0", "0", " ">>,
    <<"1", "2", "3", ".", "4", "5", "6", ".", "7", "8", "9", "-", "0", "0", " ", "8", ".", "0", "0", "0", ",", "0", "0", " ", "R", "$", "0", ",", "0", "0", " ">>,
    <<"V", "a", "l", "o", "r", " ", "d", "o", " ", "p", "a", "g", "a", "m", "e", "n", "t", "o", ":", " ", "R", "$", " ", "8", ".", "0", "0", "0", ",", "0", "0", " ", "J", "u", "r", "o", "s">>,
    <<"1", "2", ".", "3", "4", "5", ".", "6", "7", "8", "/", "0", "0", "0", "1", "-", "9", "5", " ", "0", ",", "0", "0", " ", "R", "$", "0", ",", "0", "0", " ">>,
    <<"7", ",", "5", "0", " ", "R", "$", "0", ",", "0", "0", " ">> >>

RECURSIVE Concats(_, _)
Concats(frags, n) ==
    IF n = 0 THEN {<<>>}
    ELSE LET shorter == Concats(frags, n - 1) IN
         shorter \cup {t \o frags[i] : t \in shorter, i \in 1..Len(frags)}

TextosValor == Concats(FragmentosValor, MaxFrags)

Versoes == {"v16", "sanitized"}

InitValor ==
    /\ versao \in Versoes
    /\ texto \in TextosValor
    /\ pc = "extrair_valor"
    /\ valores_encontrados = <<>>
    /\ candidatos = <<>>
    /\ unicos = <<>>
    /\ resultado = <<>>
    /\ debug_info = EmptyDict
    /\ entrada = {}
    /\ SemExecucao

ExtrairValor ==
    /\ pc = "extrair_valor"
    /\ \E r \in {extrair_valor(texto, debug_info, versao)} :
        /\ valores_encontrados' = r.valores
        /\ unicos' = r.unicos
        /\ resultado' = r.ret
        /\ debug_info' = r.debug
    /\ pc' = "done"
    /\ UNCHANGED <<versao, texto, candidatos>>
    /\ UNCHANGED mainVars

NextValor == ExtrairValor

SpecValor == InitValor /\ [][NextValor]_vars

(***************************************************************************)
(* Properties of extrair_valor (checked under SpecValor)                   *)
(***************************************************************************)
TemPontoEVirgula(c) == Contains(c, <<",">>) /\ Contains(c, <<".">>)

\* the entries of unicos that debug_info['valor_selecionado'] names
Selecionados ==
    IF Has(debug_info, "valor_selecionado")
    THEN {i \in 1..Len(unicos) : /\ unicos[i].tipo = debug_info["valor_selecionado"][1]
                                 /\ unicos[i].valor = debug_info["valor_selecionado"][2]}
    ELSE {}

\* C5 (as claimed): the amount is returned in the display form of the capture:
\* a selected capture with thousands separator and decimal comma, such as
\* '1.234,56', is returned unchanged, whichever pattern matched it.
C5_FormaOriginal ==
    pc = "done" =>
        \A i \in Selecionados :
            TemPontoEVirgula(unicos[i].captura) => resultado = unicos[i].captura

\* C6: the value returned is that of a candidate whose prioridade is the least
\* over all candidates found; 'Valor principal: R$ 100,00' with 'R$ 999,00'
\* gives '100,00' and 'R$ 50,00' alone gives the priority-5 value '50,00'.
C6_MenorPrioridade ==
    /\ (pc = "done" /\ valores_encontrados # <<>>) =>
          /\ Has(debug_info, "valor_selecionado")
          /\ resultado = debug_info["valor_selecionado"][2]
          /\ \E i \in 1..Len(valores_encontrados) :
                /\ valores_encontrados[i].tipo = debug_info["valor_selecionado"][1]
                /\ valores_encontrados[i].valor = resultado
                /\ \A j \in 1..Len(valores_encontrados) :
                      valores_encontrados[i].prioridade <= valores_encontrados[j].prioridade
    /\ (pc = "done" /\ texto = FragmentosValor[1] \o FragmentosValor[2]) =>
          resultado = <<"1", "0", "0", ",", "0", "0">>
    /\ (pc = "done" /\ texto = FragmentosValor[3]) =>
          /\ resultado = <<"5", "0", ",", "0", "0">>
          /\ debug_info["valor_selecionado"][1] = "rs_isolado"

\* C6 witness: candidates of prioridade 1 and 5 were found and the one returned has prioridade 1
C6_Witness ==
    /\ pc = "done"
    /\ texto = FragmentosValor[2] \o FragmentosValor[1]
    /\ \E i, j \in 1..Len(valores_encontrados) :
          valores_encontrados[i].prioridade = 1 /\ valores_encontrados[j].prioridade = 5
    /\ resultado = <<"1", "0", "0", ",", "0", "0">>

\* C7: after the dedup there is exactly one entry per distinct numeric value,
\* and it is the first of the candidates of least prioridade among those that
\* parsed to that value (a later candidate of equal prioridade does not replace it).
C7_Dedup ==
    pc = "done" =>
        /\ \A i, j \in 1..Len(unicos) : i # j => unicos[i].float # unicos[j].float
        /\ \A k \in 1..Len(valores_encontrados) :
              \E i \in 1..Len(unicos) : unicos[i].float = valores_encontrados[k].float
        /\ \A i \in 1..Len(unicos) :
              \E k \in 1..Len(valores_encontrados) :
                 /\ valores_encontrados[k] = unicos[i]
                 /\ \A j \in 1..Len(valores_encontrados) :
                       valores_encontrados[j].float = unicos[i].float =>
                          /\ unicos[i].prioridade <= valores_encontrados[j].prioridade
                          /\ (j < k => unicos[i].prioridade < valores_encontrados[j].prioridade)

\* C7 witness: two different candidates of the same value and the same prioridade, and one
\* of higher prioridade number, were found; a single entry holds the value
C7_Witness ==
    /\ pc = "done"
    /\ \E i, j, k \in 1..Len(valores_encontrados) :
          /\ i < j
          /\ valores_encontrados[i].float = valores_encontrados[j].float
          /\ valores_encontrados[i].float = valores_encontrados[k].float
          /\ valores_encontrados[i].prioridade = valores_encontrados[j].prioridade
          /\ valores_encontrados[i].valor # valores_encontrados[j].valor
          /\ valores_encontrados[k].prioridade > valores_encontrados[i].prioridade
          /\ \E u \in 1..Len(unicos) : unicos[u] = valores_encontrados[i]

\* a capture that the code's conversion turns into a number greater than zero
NumeroPositivo(c) ==
    LET semMilhar == IF TemPontoEVirgula(c) THEN replace(c, ".", <<>>) ELSE c
        decimal   == replace(semMilhar, ",", <<".">>)
    IN  /\ CountOf(decimal, ".") <= 1
        /\ \E i \in 1..Len(decimal) : decimal[i] \in Digit \ {"0"}

\* some match of some pattern of the version captures a positive number
AlgumValorPositivo(txt, v) ==
    \/ v = "v16" /\ ValoresBradesco(txt) # <<>>
    \/ \E k \in 1..Len(patterns(v)) :
          \E caps \in {finditer(patterns(v)[k].re, txt)} :
             \E j \in 1..Len(caps) : NumeroPositivo(strip(caps[j]))

\* C8: unparsable captures and values <= 0 are discarded without ending the
\* scan: the sentinel is returned exactly when the text is empty or no match of
\* any pattern captures a positive number, and then valor_erro is recorded.
C8_Sentinela ==
    pc = "done" =>
        /\ (resultado = VALOR_NAO_ENCONTRADO) <=> ~AlgumValorPositivo(texto, versao)
        /\ texto = <<>> => resultado = VALOR_NAO_ENCONTRADO
        /\ resultado = VALOR_NAO_ENCONTRADO => Has(debug_info, "valor_erro")

\* C8 witness: '1.2.3' and '0,00' were captured and discarded, and the later 'R$ 50,00' is returned
C8_Witness ==
    /\ pc = "done"
    /\ texto = FragmentosValor[6] \o FragmentosValor[3]
    /\ resultado = <<"5", "0", ",", "0", "0">>
    /\ ~Has(debug_info, "valor_erro")

(***************************************************************************)
(* re.sub, str.split, str.find                                             *)
(***************************************************************************)
\* re.sub(pat, rep, s) from position i on, for a pattern that matches no empty text;
\* ms = Matches(pat, s)
RECURSIVE SubFrom(_, _, _, _)
SubFrom(rep, s, ms, i) ==
    The({ IF ~m.ok THEN Slice(s, i, Len(s) + 1)
          ELSE Slice(s, i, m.start) \o rep \o SubFrom(rep, s, ms, m.end) :
          m \in {SearchFrom(ms, i)} })

sub(pat, rep, s) == The({SubFrom(rep, s, ms, 1) : ms \in {Matches(pat, s)}})

\* re.sub(r'\s+', ' ', s)
collapse_spaces(s) == sub(<<Plus(WS)>>, <<" ">>, s)

\* len(s.split()): the number of maximal runs of non-whitespace characters
SplitCount(s) ==
    Cardinality({i \in 1..Len(s) : s[i] \notin WS /\ (i = 1 \/ s[i - 1] \in WS)})

\* str.startswith
startswith(s, prefix) == StartsAt(s, 1, prefix)

(***************************************************************************)
(* validar_nome                                                            *)
(***************************************************************************)

\* empresas_sistema (v16)
empresas_sistema_v16 == <<
    <<"F", "A", "R", "M", "A", "U", "S", "A">>,
    <<"U", "R", "B", "A", "N", "B", "O", "X">>,
    <<"P", "H", "A", "R", "M", "A", "C", "E", "U", "T", "I", "C", "A", "L">>,
    <<"L", "I", "F", "E", " ", "S", "C", "I", "E", "N", "C", "E">>,
    <<"S", "I", "C", "O", "O", "B">> >>

\* empresas_sistema (sanitized)
empresas_sistema_sanitized == <<
    <<"S", "Y", "S", "T", "E", "M", "_", "B", "A", "N", "K">>,
    <<"Y", "O", "U", "R", "_", "C", "O", "M", "P", "A", "N", "Y">> >>

\* rejeitar (sanitized)
rejeitar_sanitized == <<
    <<"a", "g", "e", "n", "c", "i", "a">>,
    <<"c", "o", "n", "t", "a">>,
    <<"c", "p", "f">>,
    <<"c", "n", "p", "j">>,
    <<"c", "h", "a", "v", "e">>,
    <<"i", "n", "s", "t", "i", "t", "u", "i", "c", "a", "o">>,
    <<"b", "a", "n", "c", "o">>,
    <<"d", "a", "d", "o", "s">>,
    <<"t", "r", "a", "n", "s", "f", "e", "r", "e", "n", "c", "i", "a">>,
    <<"p", "a", "g", "a", "m", "e", "n", "t", "o">>,
    <<"v", "a", "l", "o", "r">>,
    <<"d", "o", "c", "u", "m", "e", "n", "t", "o">>,
    <<"a", "u", "t", "e", "n", "t", "i", "c", "a", "c", "a", "o">>,
    <<"c", "o", "n", "t", "r", "o", "l", "e">>,
    <<"d", "e", "b", "i", "t", "o">>,
    <<"o", "r", "i", "g", "e", "m">> >>

\* rejeitar (v16): the same list and six more
rejeitar_v16 == rejeitar_sanitized \o <<
    <<"d", "e", "s", "t", "i", "n", "o">>,
    <<"c", "o", "r", "r", "e", "n", "t", "e">>,
    <<"c", "o", "d", "i", "g", "o">>,
    <<"b", "a", "r", "r", "a", "s">>,
    <<"l", "i", "n", "h", "a">>,
    <<"d", "i", "g", "i", "t", "a", "v", "e", "l">> >>

LIT_SICOOB == <<"S", "I", "C", "O", "O", "B">>

LIT_SISTEMA_DE_COOPERATIVAS == <<"S", "I", "S", "T", "E", "M", "A", " ", "D", "E", " ", "C", "O", "O", "P", "E", "R", "A", "T", "I", "V", "A", "S">>

\* ^[\d\.\-\*\s]+$
SoNumeros_RE ==
    <<Bol, Plus(Digit \cup WS \cup {".", "-", "*"}), Eos>>

\* [a-zA-Z]{5,}
CincoLetras_RE ==
    <<Cls(AZ, 5, -1)>>


RejeitaEmpresa_igual(nome_upper, emp, v) == nome_upper = emp

\* `emp in nome_upper` leads to `return False` (v16: unless the SICOOB exception applies)
RejeitaEmpresa(nome_upper, emp, v) ==
    /\ Contains(nome_upper, emp)
    /\ ~(/\ v = "v16"
         /\ emp = LIT_SICOOB
         /\ Len(nome_upper) > 25
         /\ ~Contains(nome_upper, LIT_SISTEMA_DE_COOPERATIVAS))

validar_nome(nome, min_len, v) ==
    LET empresas_sistema == IF v = "v16" THEN empresas_sistema_v16 ELSE empresas_sistema_sanitized
        rejeitar == IF v = "v16" THEN rejeitar_v16 ELSE rejeitar_sanitized
        nome_upper == upper(nome)
        nome_lower == lower(nome)
    IN  IF nome = <<>> \/ Len(nome) < min_len THEN FALSE
        ELSE IF ~(\E i \in 1..Len(nome) : nome[i] \in AZ) THEN FALSE
        ELSE IF M(SoNumeros_RE, 1, nome, 1, <<0, 0>>).ok THEN FALSE
        ELSE IF \E e \in 1..Len(empresas_sistema) : RejeitaEmpresa(nome_upper, empresas_sistema[e], v)
             THEN FALSE
        ELSE IF \E r \in 1..Len(rejeitar) :
                    nome_lower = rejeitar[r] \/ startswith(nome_lower, rejeitar[r] \o <<" ">>)
             THEN FALSE
        ELSE SplitCount(nome) >= 2 \/ search(CincoLetras_RE, nome).ok

(***************************************************************************)
(* extrair_beneficiario: the patterns of the detectors, in the order of    *)
(* the code                                                                *)
(***************************************************************************)
\* Controle\s+de\s+Pagamento\s+Benefici[aá]rio:\s*([A-ZÀ-ÚÇ][A-ZÀ-ÚÇ\s\.\-\(\)0-9]+?)(?:\s*CPF/CNPJ:|\s*Controle:|\s*$)
m_bradesco_controle_RE ==
    <<Lit(<<"C", "o", "n", "t", "r", "o", "l", "e">>), Plus(WS), Lit(<<"d", "e">>), Plus(WS),
      Lit(<<"P", "a", "g", "a", "m", "e", "n", "t", "o">>), Plus(WS),
      Lit(<<"B", "e", "n", "e", "f", "i", "c", "i">>), One({"A", "Á", "a", "á"}),
      Lit(<<"r", "i", "o", ":">>), Star(WS), GOpen, One(AZ \cup Accented),
      LazyPlus(Digit \cup AZ \cup Accented \cup WS \cup {".", "-", "(", ")"}), GClose,
      Alt(<< <<Star(WS), Lit(<<"C", "P", "F", "/", "C", "N", "P", "J", ":">>)>>,
              <<Star(WS), Lit(<<"C", "o", "n", "t", "r", "o", "l", "e", ":">>)>>,
              <<Star(WS), Eos>> >>)>>

\* 37\.124\.240/0001-08\s+([A-ZÀ-ÚÇ][A-ZÀ-ÚÇ\s\.\-\(\)]+?)(?:\s+\d{2}\.\d{3}\.\d{3}/\d{4}-\d{2}|\s+\d{3}\.\d{3}\.\d{3}-\d{2}|\s*$)
m_bradesco_apos_cnpj_RE ==
    <<Lit(<<"3", "7", ".", "1", "2", "4", ".", "2", "4", "0", "/", "0", "0", "0", "1", "-", "0", "8">>),
      Plus(WS), GOpen, One(AZ \cup Accented),
      LazyPlus(AZ \cup Accented \cup WS \cup {".", "-", "(", ")"}), GClose,
      Alt(<< <<Plus(WS), Cls(Digit, 2, 2), Lit(<<".">>), Cls(Digit, 3, 3), Lit(<<".">>), Cls(Digit, 3, 3), Lit(<<"/">>), Cls(Digit, 4, 4), Lit(<<"-">>), Cls(Digit, 2, 2)>>,
              <<Plus(WS), Cls(Digit, 3, 3), Lit(<<".">>), Cls(Digit, 3, 3), Lit(<<".">>), Cls(Digit, 3, 3), Lit(<<"-">>), Cls(Digit, 2, 2)>>,
              <<Star(WS), Eos>> >>)>>

\* Dados\s+de\s+quem\s+recebeu.*?Nome:\s*([A-ZÀ-ÚÇ][A-ZÀ-ÚÇ\s\.\-\(\)]+?)(?:\s*CPF/CNPJ:|\s*Institui[çc][aã]o|\s*$)
m_bradesco_recebeu_RE ==
    <<Lit(<<"D", "a", "d", "o", "s">>), Plus(WS), Lit(<<"d", "e">>), Plus(WS),
      Lit(<<"q", "u", "e", "m">>), Plus(WS), Lit(<<"r", "e", "c", "e", "b", "e", "u">>),
      LazyStar(Sigma), Lit(<<"N", "o", "m", "e", ":">>), Star(WS), GOpen, One(AZ \cup Accented),
      LazyPlus(AZ \cup Accented \cup WS \cup {".", "-", "(", ")"}), GClose,
      Alt(<< <<Star(WS), Lit(<<"C", "P", "F", "/", "C", "N", "P", "J", ":">>)>>,
              <<Star(WS), Lit(<<"I", "n", "s", "t", "i", "t", "u", "i">>), One({"C", "Ç", "c", "ç"}), One({"A", "Ã", "a", "ã"}), Lit(<<"o">>)>>,
              <<Star(WS), Eos>> >>)>>

\* Cr[ée]dito:\s*Nome:\s*([A-Z][A-Z\s\.\-]{5,100}?)(?:\s*CPF/CNPJ|\s*Instituição|\s*Chave|\s*Agência|\s*Conta|$)
m_sicoob_ted_RE ==
    <<Lit(<<"C", "r">>), One({"E", "É", "e", "é"}), Lit(<<"d", "i", "t", "o", ":">>), Star(WS),
      Lit(<<"N", "o", "m", "e", ":">>), Star(WS), GOpen, One(AZ),
      LazyCls(AZ \cup WS \cup {".", "-"}, 5, 100), GClose,
      Alt(<< <<Star(WS), Lit(<<"C", "P", "F", "/", "C", "N", "P", "J">>)>>,
              <<Star(WS), Lit(<<"I", "n", "s", "t", "i", "t", "u", "i", "ç", "ã", "o">>)>>,
              <<Star(WS), Lit(<<"C", "h", "a", "v", "e">>)>>,
              <<Star(WS), Lit(<<"A", "g", "ê", "n", "c", "i", "a">>)>>,
              <<Star(WS), Lit(<<"C", "o", "n", "t", "a">>)>>,
              <<Eos>> >>)>>

\* (?:Dados de quem recebeu|Destina\s*t[aá]rio\s*:).*?Nome\s*:\s*([A-Z][A-Z\s\.\-]{5,100}?)(?:\s*CPF/CNPJ|\s*Instituição|\s*Chave|\s*Agência|\s*Conta|$)
m_pix_RE ==
    <<Alt(<< <<Lit(<<"D", "a", "d", "o", "s", " ", "d", "e", " ", "q", "u", "e", "m", " ", "r", "e", "c", "e", "b", "e", "u">>)>>,
              <<Lit(<<"D", "e", "s", "t", "i", "n", "a">>), Star(WS), Lit(<<"t">>), One({"A", "Á", "a", "á"}), Lit(<<"r", "i", "o">>), Star(WS), Lit(<<":">>)>> >>),
      LazyStar(Sigma), Lit(<<"N", "o", "m", "e">>), Star(WS), Lit(<<":">>), Star(WS), GOpen, One(AZ),
      LazyCls(AZ \cup WS \cup {".", "-"}, 5, 100), GClose,
      Alt(<< <<Star(WS), Lit(<<"C", "P", "F", "/", "C", "N", "P", "J">>)>>,
              <<Star(WS), Lit(<<"I", "n", "s", "t", "i", "t", "u", "i", "ç", "ã", "o">>)>>,
              <<Star(WS), Lit(<<"C", "h", "a", "v", "e">>)>>,
              <<Star(WS), Lit(<<"A", "g", "ê", "n", "c", "i", "a">>)>>,
              <<Star(WS), Lit(<<"C", "o", "n", "t", "a">>)>>,
              <<Eos>> >>)>>

\* (?:CPF/CNPJ|CNPJ)?:?\s*([A-Z][A-Z\s\.\-]{5,100}?)\s*Nome:
m_pix_invertido_RE ==
    <<Opt(<<Alt(<< <<Lit(<<"C", "P", "F", "/", "C", "N", "P", "J">>)>>,
              <<Lit(<<"C", "N", "P", "J">>)>> >>)>>),
      Cls({":"}, 0, 1), Star(WS), GOpen, One(AZ), LazyCls(AZ \cup WS \cup {".", "-"}, 5, 100),
      GClose, Star(WS), Lit(<<"N", "o", "m", "e", ":">>)>>

\* [^A-Z\s\.]
NaoLetra_RE ==
    <<One(Sigma \ (AZ \cup WS \cup {"."}))>>

\* Dados do recebedor Para\s*(?:[0-9\s]+)?\s*([A-Z][A-Z\s\-\(\).]{5,100}?)(?:\s*Chave|\s*CPF/CNPJ|\s*Agência|\s*Conta|$)
m_santander_pix_RE ==
    <<Lit(<<"D", "a", "d", "o", "s", " ", "d", "o", " ", "r", "e", "c", "e", "b", "e", "d", "o", "r", " ", "P", "a", "r", "a">>),
      Star(WS), Opt(<<Plus(Digit \cup WS)>>), Star(WS), GOpen, One(AZ),
      LazyCls(AZ \cup WS \cup {".", "-", "(", ")"}, 5, 100), GClose,
      Alt(<< <<Star(WS), Lit(<<"C", "h", "a", "v", "e">>)>>,
              <<Star(WS), Lit(<<"C", "P", "F", "/", "C", "N", "P", "J">>)>>,
              <<Star(WS), Lit(<<"A", "g", "ê", "n", "c", "i", "a">>)>>,
              <<Star(WS), Lit(<<"C", "o", "n", "t", "a">>)>>,
              <<Eos>> >>)>>

\* ([A-Z][A-Z\s\-\(\).]{5,100}?)\s+Raz[aã]o\s+Social\s+Benefici[aá]rio(?:\s+Final)?\s*:
m_boleto_rev_RE ==
    <<GOpen, One(AZ), LazyCls(AZ \cup WS \cup {".", "-", "(", ")"}, 5, 100), GClose, Plus(WS),
      Lit(<<"R", "a", "z">>), One({"A", "Ã", "a", "ã"}), Lit(<<"o">>), Plus(WS),
      Lit(<<"S", "o", "c", "i", "a", "l">>), Plus(WS),
      Lit(<<"B", "e", "n", "e", "f", "i", "c", "i">>), One({"A", "Á", "a", "á"}),
      Lit(<<"r", "i", "o">>), Opt(<<Plus(WS), Lit(<<"F", "i", "n", "a", "l">>)>>), Star(WS),
      Lit(<<":">>)>>

\* (?:Nome/Raz[aã]o Social:|Conv[êe]nio:|Benefici[aá]rio:|Nome:)\s*([A-Z0-9\s\.\-]+?)(?:\s*Nome Fantasia|\s*CPF/CNPJ|\s*Pagador|\s*Cr[ée]dito:|\s*Autentica[çc][aã]o|$)
m_sicoob_RE ==
    <<Alt(<< <<Lit(<<"N", "o", "m", "e", "/", "R", "a", "z">>), One({"A", "Ã", "a", "ã"}), Lit(<<"o", " ", "S", "o", "c", "i", "a", "l", ":">>)>>,
              <<Lit(<<"C", "o", "n", "v">>), One({"E", "Ê", "e", "ê"}), Lit(<<"n", "i", "o", ":">>)>>,
              <<Lit(<<"B", "e", "n", "e", "f", "i", "c", "i">>), One({"A", "Á", "a", "á"}), Lit(<<"r", "i", "o", ":">>)>>,
              <<Lit(<<"N", "o", "m", "e", ":">>)>> >>),
      Star(WS), GOpen, LazyPlus(Digit \cup AZ \cup WS \cup {".", "-"}), GClose,
      Alt(<< <<Star(WS), Lit(<<"N", "o", "m", "e", " ", "F", "a", "n", "t", "a", "s", "i", "a">>)>>,
              <<Star(WS), Lit(<<"C", "P", "F", "/", "C", "N", "P", "J">>)>>,
              <<Star(WS), Lit(<<"P", "a", "g", "a", "d", "o", "r">>)>>,
              <<Star(WS), Lit(<<"C", "r">>), One({"E", "É", "e", "é"}), Lit(<<"d", "i", "t", "o", ":">>)>>,
              <<Star(WS), Lit(<<"A", "u", "t", "e", "n", "t", "i", "c", "a">>), One({"C", "Ç", "c", "ç"}), One({"A", "Ã", "a", "ã"}), Lit(<<"o">>)>>,
              <<Eos>> >>)>>

\* Benefici[aá]rio Original.*?Raz[aã]o Social:\s*(?P<beneficiario>[A-Z][A-Z\s\-\(\)]+?)(?:\s*Nome Fantasia|\s*Dados do Pagador)
m_santander_original_RE ==
    <<Lit(<<"B", "e", "n", "e", "f", "i", "c", "i">>), One({"A", "Á", "a", "á"}),
      Lit(<<"r", "i", "o", " ", "O", "r", "i", "g", "i", "n", "a", "l">>), LazyStar(Sigma),
      Lit(<<"R", "a", "z">>), One({"A", "Ã", "a", "ã"}),
      Lit(<<"o", " ", "S", "o", "c", "i", "a", "l", ":">>), Star(WS), GOpen, One(AZ),
      LazyPlus(AZ \cup WS \cup {"-", "(", ")"}), GClose,
      Alt(<< <<Star(WS), Lit(<<"N", "o", "m", "e", " ", "F", "a", "n", "t", "a", "s", "i", "a">>)>>,
              <<Star(WS), Lit(<<"D", "a", "d", "o", "s", " ", "d", "o", " ", "P", "a", "g", "a", "d", "o", "r">>)>> >>)>>

\* IMPOSTO|TAXA
ImpostoTaxa_RE ==
    <<Alt(<< <<Lit(<<"I", "M", "P", "O", "S", "T", "O">>)>>,
              <<Lit(<<"T", "A", "X", "A">>)>> >>)>>

\* Empresa[\\/\s]+[OÓ]rg[aã]o[:\s]+([A-Z][A-Z0-9\-\s]{5,50}?)(?:\s*\d{2}\.\d{3}|\s*Codigo|\s*CNPJ)
m_orgao_RE ==
    <<Lit(<<"E", "m", "p", "r", "e", "s", "a">>), Plus(WS \cup {"/", "\\"}),
      One({"O", "Ó", "o", "ó"}), Lit(<<"r", "g">>), One({"A", "Ã", "a", "ã"}), Lit(<<"o">>),
      Plus(WS \cup {":"}), GOpen, One(AZ), LazyCls(Digit \cup AZ \cup WS \cup {"-"}, 5, 50), GClose,
      Alt(<< <<Star(WS), Cls(Digit, 2, 2), Lit(<<".">>), Cls(Digit, 3, 3)>>,
              <<Star(WS), Lit(<<"C", "o", "d", "i", "g", "o">>)>>,
              <<Star(WS), Lit(<<"C", "N", "P", "J">>)>> >>)>>

\* \b(RJ-[A-Z\s]+(?:ELETRONICA|DIGITAL)?)\b
nomes_grerj_RE ==
    <<WordB, GOpen, Lit(<<"R", "J", "-">>), Plus(AZ \cup WS),
      Opt(<<Alt(<< <<Lit(<<"E", "L", "E", "T", "R", "O", "N", "I", "C", "A">>)>>,
              <<Lit(<<"D", "I", "G", "I", "T", "A", "L">>)>> >>)>>),
      GClose, WordB>>

\* Benefici[aá]rio:\s*Nome/Raz[aã]o\s*Social:\s*([A-Z][A-Z\s\.\-]{5,100}?)(?:\s*CPF/CNPJ|\s*Instituição|\s*Chave|\s*Agência|\s*Conta|$)
m_sicoob_boleto_RE ==
    <<Lit(<<"B", "e", "n", "e", "f", "i", "c", "i">>), One({"A", "Á", "a", "á"}),
      Lit(<<"r", "i", "o", ":">>), Star(WS), Lit(<<"N", "o", "m", "e", "/", "R", "a", "z">>),
      One({"A", "Ã", "a", "ã"}), Lit(<<"o">>), Star(WS), Lit(<<"S", "o", "c", "i", "a", "l", ":">>),
      Star(WS), GOpen, One(AZ), LazyCls(AZ \cup WS \cup {".", "-"}, 5, 100), GClose,
      Alt(<< <<Star(WS), Lit(<<"C", "P", "F", "/", "C", "N", "P", "J">>)>>,
              <<Star(WS), Lit(<<"I", "n", "s", "t", "i", "t", "u", "i", "ç", "ã", "o">>)>>,
              <<Star(WS), Lit(<<"C", "h", "a", "v", "e">>)>>,
              <<Star(WS), Lit(<<"A", "g", "ê", "n", "c", "i", "a">>)>>,
              <<Star(WS), Lit(<<"C", "o", "n", "t", "a">>)>>,
              <<Eos>> >>)>>

\* Raz[aã]o\s+Social\s+Benefici[aá]rio[:\s]+([A-Z][A-Z\s]+LTDA|[A-Z][A-Z\s]+S\.?A\.?|[A-Z][A-Z\s]{10,60}?)(?:\s*(?:013|037|CPF|CNPJ|Nome|Banco|\d{3}\.\d{3}))
m_razao_social_forward_RE ==
    <<Lit(<<"R", "a", "z">>), One({"A", "Ã", "a", "ã"}), Lit(<<"o">>), Plus(WS),
      Lit(<<"S", "o", "c", "i", "a", "l">>), Plus(WS),
      Lit(<<"B", "e", "n", "e", "f", "i", "c", "i">>), One({"A", "Á", "a", "á"}),
      Lit(<<"r", "i", "o">>), Plus(WS \cup {":"}), GOpen,
      Alt(<< <<One(AZ), Plus(AZ \cup WS), Lit(<<"L", "T", "D", "A">>)>>,
              <<One(AZ), Plus(AZ \cup WS), Lit(<<"S">>), Cls({"."}, 0, 1), Lit(<<"A">>), Cls({"."}, 0, 1)>>,
              <<One(AZ), LazyCls(AZ \cup WS, 10, 60)>> >>),
      GClose, Star(WS),
      Alt(<< <<Lit(<<"0", "1", "3">>)>>,
              <<Lit(<<"0", "3", "7">>)>>,
              <<Lit(<<"C", "P", "F">>)>>,
              <<Lit(<<"C", "N", "P", "J">>)>>,
              <<Lit(<<"N", "o", "m", "e">>)>>,
              <<Lit(<<"B", "a", "n", "c", "o">>)>>,
              <<Cls(Digit, 3, 3), Lit(<<".">>), Cls(Digit, 3, 3)>> >>)>>

\* Benefici[aá]rio\s+Final[:\s]+([A-Z][A-Z\s]+?)(?:\s*(?:CPF|CNPJ|Razao|\d{3}\.\d{3}))
m_final_forward_RE ==
    <<Lit(<<"B", "e", "n", "e", "f", "i", "c", "i">>), One({"A", "Á", "a", "á"}),
      Lit(<<"r", "i", "o">>), Plus(WS), Lit(<<"F", "i", "n", "a", "l">>), Plus(WS \cup {":"}), GOpen,
      One(AZ), LazyPlus(AZ \cup WS), GClose, Star(WS),
      Alt(<< <<Lit(<<"C", "P", "F">>)>>,
              <<Lit(<<"C", "N", "P", "J">>)>>,
              <<Lit(<<"R", "a", "z", "a", "o">>)>>,
              <<Cls(Digit, 3, 3), Lit(<<".">>), Cls(Digit, 3, 3)>> >>)>>

\* Favorecido[:\s]+([A-Z][A-Z\s]+?)(?:\s+Valor|\s+CNPJ|\s+CPF)
m_favorecido_RE ==
    <<Lit(<<"F", "a", "v", "o", "r", "e", "c", "i", "d", "o">>), Plus(WS \cup {":"}), GOpen, One(AZ),
      LazyPlus(AZ \cup WS), GClose,
      Alt(<< <<Plus(WS), Lit(<<"V", "a", "l", "o", "r">>)>>,
              <<Plus(WS), Lit(<<"C", "N", "P", "J">>)>>,
              <<Plus(WS), Lit(<<"C", "P", "F">>)>> >>)>>

\* the patterns of the sanitized script that differ from the above
\* (?:Dados de quem recebeu|Destinatário).*?Nome\s*:\s*([A-Z][A-Z\s\.\-]{5,100}?)(?:\s*CPF/CNPJ|\s*Instituição|$)
m_pix_sanitized_RE ==
    <<Alt(<< <<Lit(<<"D", "a", "d", "o", "s", " ", "d", "e", " ", "q", "u", "e", "m", " ", "r", "e", "c", "e", "b", "e", "u">>)>>,
              <<Lit(<<"D", "e", "s", "t", "i", "n", "a", "t", "á", "r", "i", "o">>)>> >>),
      LazyStar(Sigma), Lit(<<"N", "o", "m", "e">>), Star(WS), Lit(<<":">>), Star(WS), GOpen, One(AZ),
      LazyCls(AZ \cup WS \cup {".", "-"}, 5, 100), GClose,
      Alt(<< <<Star(WS), Lit(<<"C", "P", "F", "/", "C", "N", "P", "J">>)>>,
              <<Star(WS), Lit(<<"I", "n", "s", "t", "i", "t", "u", "i", "ç", "ã", "o">>)>>,
              <<Eos>> >>)>>

\* Crédito:\s*Nome:\s*([A-Z][A-Z\s\.\-]{5,100}?)(?:\s*CPF/CNPJ|\s*Agência|$)
m_ted_RE ==
    <<Lit(<<"C", "r", "é", "d", "i", "t", "o", ":">>), Star(WS), Lit(<<"N", "o", "m", "e", ":">>),
      Star(WS), GOpen, One(AZ), LazyCls(AZ \cup WS \cup {".", "-"}, 5, 100), GClose,
      Alt(<< <<Star(WS), Lit(<<"C", "P", "F", "/", "C", "N", "P", "J">>)>>,
              <<Star(WS), Lit(<<"A", "g", "ê", "n", "c", "i", "a">>)>>,
              <<Eos>> >>)>>

\* Razão\s+Social\s+Beneficiário[:\s]+([A-Z][A-Z\s]+?)(?:\s*(?:CPF|CNPJ|Nome|\d{3}\.\d{3}))
m_boleto_RE ==
    <<Lit(<<"R", "a", "z", "ã", "o">>), Plus(WS), Lit(<<"S", "o", "c", "i", "a", "l">>), Plus(WS),
      Lit(<<"B", "e", "n", "e", "f", "i", "c", "i", "á", "r", "i", "o">>), Plus(WS \cup {":"}),
      GOpen, One(AZ), LazyPlus(AZ \cup WS), GClose, Star(WS),
      Alt(<< <<Lit(<<"C", "P", "F">>)>>,
              <<Lit(<<"C", "N", "P", "J">>)>>,
              <<Lit(<<"N", "o", "m", "e">>)>>,
              <<Cls(Digit, 3, 3), Lit(<<".">>), Cls(Digit, 3, 3)>> >>)>>

\* literal texts of the guards and the sentinel
LIT_Bradesco == <<"B", "r", "a", "d", "e", "s", "c", "o">>
LIT_bradesco == <<"b", "r", "a", "d", "e", "s", "c", "o">>
LIT_PIX == <<"P", "I", "X">>
LIT_FARMAUSA == <<"F", "A", "R", "M", "A", "U", "S", "A">>
LIT_URBANBOX == <<"U", "R", "B", "A", "N", "B", "O", "X">>
LIT_Dados_de_quem_recebeu == <<"D", "a", "d", "o", "s", " ", "d", "e", " ", "q", "u", "e", "m", " ", "r", "e", "c", "e", "b", "e", "u">>
LIT_Santander == <<"S", "a", "n", "t", "a", "n", "d", "e", "r">>
LIT_Dados_do_Beneficiario_Original == <<"D", "a", "d", "o", "s", " ", "d", "o", " ", "B", "e", "n", "e", "f", "i", "c", "i", "á", "r", "i", "o", " ", "O", "r", "i", "g", "i", "n", "a", "l">>
LIT_Boleto == <<"B", "o", "l", "e", "t", "o">>
LIT_Beneficiario == <<"B", "e", "n", "e", "f", "i", "c", "i", "á", "r", "i", "o">>
LIT_Razao_Social == <<"R", "a", "z", "ã", "o", " ", "S", "o", "c", "i", "a", "l">>
FORNECEDOR_DESCONHECIDO == <<"F", "O", "R", "N", "E", "C", "E", "D", "O", "R", "_", "D", "E", "S", "C", "O", "N", "H", "E", "C", "I", "D", "O">>

\* the name mappings of the SICOOB detector: (benef.upper().strip(), replacement)
Mapeamentos == <<
    [de |-> <<"D", "A", "L", "L", " ", "P", "H", "Y", "T", " ", "O", "L", "A", "B", " ", "S", " ", "A">>,
     para |-> <<"D", "A", "L", "L", " ", "P", "H", "Y", "T", "O", " ", "L", "A", "B", " ", "S", ".", "A", ".">>],
    [de |-> <<"P", "R", "E", "F", " ", "S", "P", " ", "D", "A", "M", "S", "P">>,
     para |-> <<"P", "R", "E", "F", "E", "I", "T", "U", "R", "A", " ", "M", "U", "N", "I", "C", "I", "P", "A", "L", " ", "D", "E", " ", "S", "A", "O", " ", "P", "A", "U", "L", "O">>],
    [de |-> <<"P", "R", "O", " ", "A", "N", " ", "Q", "U", "I", "M", " ", "E", " ", "D", "I", "A", "G", "N", "O", "S", "T", "I", "C", "A", " ", "L", "T", "D", "A">>,
     para |-> <<"P", "R", "O", " ", "A", "N", " ", "Q", "U", "I", "M", "I", "C", "A", " ", "E", " ", "D", "I", "A", "G", "N", "O", "S", "T", "I", "C", "A", " ", "L", "T", "D", "A">>],
    [de |-> <<"S", "U", "P", "R", "I", "C", "O", "R", "P", " ", "S", "U", "P", "R", "I", "M", "E", "N", "T", "O", "S", " ", "L", "T", "D", "A">>,
     para |-> <<"S", "U", "P", "R", "I", "C", "O", "R", "P", " ", "S", "U", "P", "R", "I", "M", "E", "N", "T", "O", "S", " ", "L", "T", "D", "A">>],
    [de |-> <<"S", "U", "P", "E", "R", " ", "E", "P", "I", " ", "E", "Q", "U", "I", "P", "A", "M", " ", "E", " ", "P", "R", "O", "T", "E", "C", "A", "O", " ", "I", "N", "D", "I", "V", "I", "D", "U", "A", "L">>,
     para |-> <<"S", "U", "P", "E", "R", " ", "E", "P", "I", " ", "E", "Q", "U", "I", "P", "A", "M", "E", "N", "T", "O", "S", " ", "E", " ", "P", "R", "O", "T", "E", "C", "A", "O", " ", "I", "N", "D", "I", "V", "I", "D", "U", "A", "L">>],
    [de |-> <<"A", "N", "H", "A", "N", "G", "U", "E", "R", "A", " ", "C", "O", "M", " ", "D", "E", " ", "F", "E", "R", "R", " ", "L", "T", "D", "A">>,
     para |-> <<"A", "N", "H", "A", "N", "G", "U", "E", "R", "A", " ", "C", "O", "M", " ", "D", "E", " ", "F", "E", "R", "R", "O", " ", "L", "T", "D", "A">>],
    [de |-> <<"K", "A", "L", "U", "N", "G", "A", " ", "S", "A">>,
     para |-> <<"K", "A", "L", "U", "N", "G", "A", " ", "S", ".", "A", ".">>],
    [de |-> <<"X", "P", " ", "I", "N", "V", "E", "S", "T", "I", "M", "E", "N", "T", "O", "S">>,
     para |-> <<"X", "P", " ", "I", "N", "V", "E", "S", "T", "I", "M", "E", "N", "T", "O", "S">>],
    [de |-> <<"F", "A", "R", "M", "A", "U", "S", "A", " ", "L", "I", "F", "E", " ", "S", "C", "I", "E", "N", "C", "E">>,
     para |-> <<"F", "A", "R", "M", "A", "U", "S", "A", " ", "L", "I", "F", "E", " ", "S", "C", "I", "E", "N", "C", "E">>] >>

(***************************************************************************)
(* extrair_beneficiario: the detectors.  Each one gives the candidates it  *)
(* appends to `candidatos` (cands), the value it proposes for              *)
(* debug_info['tipo'] (tipo: empty or one value) and whether it sets       *)
(* debug_info['benef_metodo_skip'] (skip: empty or one value).             *)
(***************************************************************************)
Cand(nome, score, metodo) == [nome |-> nome, score |-> score, metodo |-> metodo]
Nada == [cands |-> <<>>, tipo |-> <<>>, skip |-> <<>>]
Achou(c, tp) == [cands |-> <<c>>, tipo |-> tp, skip |-> <<>>]
Atribui(t) == <<[valor |-> t, forca |-> TRUE]>>       \* debug_info['tipo'] = t
SeAusente(t) == <<[valor |-> t, forca |-> FALSE]>>    \* debug_info['tipo'] = debug_info.get('tipo', t)

\* m.group(1).strip(), then re.sub(r'\s+', ' ', nome).upper()
NomeLimpo(s, m) == upper(collapse_spaces(strip(group1(s, m))))

\* score 22, both scripts; v16 also removes a CNPJ and a CPF from the name
Det_bradesco_controle(texto_clean, v) ==
    The({ IF ~m.ok THEN Nada
          ELSE The({ IF validar_nome(nome, 5, v)
                     THEN Achou(Cand(nome, 22, IF v = "v16" THEN "BRADESCO-PIX-ControlePagamento-V16"
                                               ELSE "BRADESCO-PIX-Controle"),
                                Atribui("BRADESCO-PIX"))
                     ELSE Nada :
                     nome \in { IF v = "v16"
                                THEN strip(sub(CPF_RE, <<>>, strip(sub(CNPJ_RE, <<>>, NomeLimpo(texto_clean, m)))))
                                ELSE NomeLimpo(texto_clean, m) } }) :
          m \in {search(m_bradesco_controle_RE, texto_clean)} })

\* score 21 (v16)
Det_bradesco_apos_cnpj(texto_clean, v) ==
    The({ IF ~m.ok THEN Nada
          ELSE The({ IF validar_nome(nome, 5, v)
                     THEN Achou(Cand(nome, 21, "BRADESCO-PIX-AposCNPJ-V16"), SeAusente("BRADESCO-PIX"))
                     ELSE Nada :
                     nome \in {NomeLimpo(texto_clean, m)} }) :
          m \in {search(m_bradesco_apos_cnpj_RE, texto_clean)} })

\* score 20 (v16)
Det_bradesco_recebeu(txt, texto_clean, v) ==
    IF ~(Contains(txt, LIT_Bradesco) \/ Contains(lower(txt), LIT_bradesco)) THEN Nada
    ELSE The({ IF ~m.ok THEN Nada
               ELSE The({ IF validar_nome(nome, 5, v)
                          THEN Achou(Cand(nome, 20, "BRADESCO-PIX-DadosRecebeu-V16"), SeAusente("BRADESCO-PIX"))
                          ELSE Nada :
                          nome \in {NomeLimpo(texto_clean, m)} }) :
               m \in {search(m_bradesco_recebeu_RE, texto_clean)} })

\* score 19: v16 m_sicoob_ted, sanitized m_ted
Det_ted(texto_clean, v) ==
    The({ IF ~m.ok THEN Nada
          ELSE The({ IF validar_nome(nome, 5, v)
                     THEN Achou(Cand(nome, 19, IF v = "v16" THEN "SICOOB-TED-V19" ELSE "TED"), <<>>)
                     ELSE Nada :
                     nome \in {NomeLimpo(texto_clean, m)} }) :
          m \in {search(IF v = "v16" THEN m_sicoob_ted_RE ELSE m_ted_RE, texto_clean)} })

\* m_pix: the match on texto, else (`if not m_pix`) the inverted layout on texto_clean;
\* raw is m_pix.group(1).strip()
PixMatch(txt, texto_clean) ==
    The({ IF m.ok THEN [ok |-> TRUE, raw |-> strip(group1(txt, m))]
          ELSE The({ IF m2.ok THEN [ok |-> TRUE, raw |-> strip(group1(texto_clean, m2))]
                     ELSE [ok |-> FALSE, raw |-> <<>>] :
                     m2 \in {search(m_pix_invertido_RE, texto_clean)} }) :
          m \in {search(m_pix_RE, txt)} })

\* score 15 or 14 (v16)
Det_pix_v16(txt, texto_clean, v) ==
    IF ~Contains(upper(txt), LIT_PIX) THEN Nada
    ELSE The({ IF ~m_pix.ok THEN [Nada EXCEPT !.tipo = SeAusente("PIX")]
               ELSE The({ IF Contains(nome, LIT_FARMAUSA) \/ Contains(nome, LIT_URBANBOX)
                          THEN [Nada EXCEPT !.tipo = SeAusente("PIX"), !.skip = <<"PIX-rejeitou-pagador">>]
                          ELSE IF validar_nome(nome, 8, v)
                          THEN IF Contains(txt, LIT_Dados_de_quem_recebeu)
                               THEN Achou(Cand(nome, 15, "PIX-recebedor-V15-score15"), SeAusente("PIX"))
                               ELSE Achou(Cand(nome, 14, "PIX-recebedor-V15-score14"), SeAusente("PIX"))
                          ELSE [Nada EXCEPT !.tipo = SeAusente("PIX")] :
                          nome \in {upper(collapse_spaces(strip(sub(NaoLetra_RE, <<" ">>, m_pix.raw))))} }) :
               m_pix \in {PixMatch(txt, texto_clean)} })

\* score 15 (sanitized)
Det_pix_sanitized(txt, v) ==
    The({ IF ~m.ok THEN Nada
          ELSE The({ IF validar_nome(nome, 8, v)
                     THEN Achou(Cand(nome, 15, "PIX-recebedor"), Atribui("PIX"))
                     ELSE Nada :
                     nome \in {NomeLimpo(txt, m)} }) :
          m \in {search(m_pix_sanitized_RE, txt)} })

\* score 13 (v16)
Det_santander_pix(texto_clean, v) ==
    The({ IF ~m.ok THEN Nada
          ELSE The({ IF validar_nome(nome, 8, v)
                     THEN Achou(Cand(nome, 13, "SANTANDER-PIX-recebedor-V15"), <<>>)
                     ELSE Nada :
                     nome \in {NomeLimpo(texto_clean, m)} }) :
          m \in {search(m_santander_pix_RE, texto_clean)} })

\* score 12 (v16)
Det_boleto_rev(texto_clean, v) ==
    The({ IF ~m.ok THEN Nada
          ELSE The({ IF validar_nome(nome, 8, v)
                     THEN Achou(Cand(nome, 12, "BOLETO-razao-social-reversa-V15"), <<>>)
                     ELSE Nada :
                     nome \in {NomeLimpo(texto_clean, m)} }) :
          m \in {search(m_boleto_rev_RE, texto_clean)} })

\* the chain of `if benef.upper().strip() == ...: benef = ...` from mapping k on
RECURSIVE AplicaMapeamentos(_, _)
AplicaMapeamentos(benef, k) ==
    IF k > Len(Mapeamentos) THEN benef
    ELSE AplicaMapeamentos(IF strip(upper(benef)) = Mapeamentos[k].de THEN Mapeamentos[k].para ELSE benef,
                           k + 1)

\* score 10 (v16): SICOOB, on texto; the name keeps its case and inner whitespace
Det_sicoob(txt, v) ==
    IF ~Contains(upper(txt), LIT_SICOOB) THEN Nada
    ELSE The({ IF ~m.ok THEN [Nada EXCEPT !.tipo = SeAusente("SICOOB")]
               ELSE The({ IF Contains(upper(benef0), LIT_SICOOB)
                             /\ Contains(upper(benef0), LIT_SISTEMA_DE_COOPERATIVAS)
                          THEN [Nada EXCEPT !.tipo = SeAusente("SICOOB"),
                                            !.skip = <<"SICOOB-rejeitou-banco">>]
                          ELSE The({ IF validar_nome(benef, 5, v)
                                     THEN Achou(Cand(benef, 10, "SICOOB-beneficiario"), SeAusente("SICOOB"))
                                     ELSE [Nada EXCEPT !.tipo = SeAusente("SICOOB")] :
                                     benef \in {AplicaMapeamentos(benef0, 1)} }) :
                          benef0 \in {strip(group1(txt, m))} }) :
               m \in {search(m_sicoob_RE, txt)} })

\* score 10 (v16): SANTANDER, "Beneficiário Original"
Det_santander_original(txt, texto_clean, v) ==
    IF ~(Contains(txt, LIT_Santander) /\ Contains(txt, LIT_Dados_do_Beneficiario_Original)) THEN Nada
    ELSE The({ IF ~m.ok THEN [Nada EXCEPT !.tipo = SeAusente("SANTANDER-TITULO")]
               ELSE The({ IF validar_nome(benef, 5, v)
                          THEN Achou(Cand(benef, 10, "SANTANDER-beneficiario-original"),
                                     SeAusente("SANTANDER-TITULO"))
                          ELSE [Nada EXCEPT !.tipo = SeAusente("SANTANDER-TITULO")] :
                          benef \in {strip(group1(texto_clean, m))} }) :
               m \in {search(m_santander_original_RE, texto_clean)} })

\* score 10 (v16): IMPOSTO, "Empresa / Órgão"
Det_imposto_regex(texto_clean, v) ==
    The({ IF ~m.ok THEN <<>>
          ELSE The({ IF validar_nome(orgao, 5, v) THEN <<Cand(orgao, 10, "IMPOSTO-regex")>> ELSE <<>> :
                     orgao \in {strip(group1(texto_clean, m))} }) :
          m \in {search(m_orgao_RE, texto_clean)} })

\* score 9 (v16): every match of the RJ pattern, validated before strip()
RECURSIVE CandsRJ(_, _, _)
CandsRJ(nomes_grerj, k, v) ==
    IF k > Len(nomes_grerj) THEN <<>>
    ELSE (IF validar_nome(nomes_grerj[k], 5, v)
          THEN <<Cand(strip(nomes_grerj[k]), 9, "IMPOSTO-padrao-RJ")>> ELSE <<>>)
         \o CandsRJ(nomes_grerj, k + 1, v)

\* the block `if re.search(r'IMPOSTO|TAXA', texto, re.IGNORECASE)`
Det_imposto(txt, texto_clean, v) ==
    IF ~search(ImpostoTaxa_RE, txt).ok THEN Nada
    ELSE [cands |-> Det_imposto_regex(texto_clean, v)
                    \o The({CandsRJ(nomes, 1, v) : nomes \in {finditer(nomes_grerj_RE, texto_clean)}}),
          tipo  |-> SeAusente("IMPOSTO"),
          skip  |-> <<>>]

\* score 10 (v16): SICOOB BOLETO
Det_sicoob_boleto(texto_clean, v) ==
    The({ IF ~m.ok THEN <<>>
          ELSE The({ IF validar_nome(nome, 5, v) THEN <<Cand(nome, 10, "SICOOB-BOLETO-V19")>> ELSE <<>> :
                     nome \in {NomeLimpo(texto_clean, m)} }) :
          m \in {search(m_sicoob_boleto_RE, texto_clean)} })

\* score 10: v16 "Razão Social Beneficiário" forward, sanitized m_boleto
Det_razao_social(texto_clean, v) ==
    The({ IF ~m.ok THEN <<>>
          ELSE The({ IF validar_nome(benef, 8, v)
                     THEN <<Cand(benef, 10, IF v = "v16" THEN "BOLETO-razao-social-forward"
                                            ELSE "BOLETO-razao-social")>>
                     ELSE <<>> :
                     benef \in {strip(group1(texto_clean, m))} }) :
          m \in {search(IF v = "v16" THEN m_razao_social_forward_RE ELSE m_boleto_RE, texto_clean)} })

\* score 9 (v16): "Beneficiário Final" forward
Det_final_forward(texto_clean, v) ==
    The({ IF ~m.ok THEN <<>>
          ELSE The({ IF validar_nome(benef, 8, v) THEN <<Cand(benef, 9, "BOLETO-final-forward")>> ELSE <<>> :
                     benef \in {strip(group1(texto_clean, m))} }) :
          m \in {search(m_final_forward_RE, texto_clean)} })

\* the block `if 'Boleto' in texto or 'Beneficiário' in texto or 'Razão Social' in texto` (v16)
Det_boleto(txt, texto_clean, v) ==
    IF ~(Contains(txt, LIT_Boleto) \/ Contains(txt, LIT_Beneficiario) \/ Contains(txt, LIT_Razao_Social))
    THEN Nada
    ELSE [cands |-> Det_sicoob_boleto(texto_clean, v) \o Det_razao_social(texto_clean, v)
                    \o Det_final_forward(texto_clean, v),
          tipo  |-> SeAusente("BOLETO"),
          skip  |-> <<>>]

\* the sanitized m_boleto sets debug_info['tipo'] with its candidate
Det_boleto_sanitized(texto_clean, v) ==
    The({ [cands |-> c, tipo |-> IF c = <<>> THEN <<>> ELSE Atribui("BOLETO"), skip |-> <<>>] :
          c \in {Det_razao_social(texto_clean, v)} })

\* score 10: Favorecido; v16 sets the tipo on a match, valid or not
Det_favorecido(texto_clean, v) ==
    The({ IF ~m.ok THEN Nada
          ELSE The({ [cands |-> IF validar_nome(fav, 5, v)
                                THEN <<Cand(fav, 10, IF v = "v16" THEN "Santander-favorecido" ELSE "Favorecido")>>
                                ELSE <<>>,
                      tipo  |-> IF v = "v16" THEN SeAusente("SANTANDER") ELSE <<>>,
                      skip  |-> <<>>] :
                     fav \in {strip(group1(texto_clean, m))} }) :
          m \in {search(m_favorecido_RE, texto_clean)} })
(***************************************************************************)
(* extrair_beneficiario: detectors in registration order, final decision   *)
(***************************************************************************)
Detectores(txt, texto_clean, v) ==
    IF v = "v16"
    THEN << Det_bradesco_controle(texto_clean, v),
            Det_bradesco_apos_cnpj(texto_clean, v),
            Det_bradesco_recebeu(txt, texto_clean, v),
            Det_ted(texto_clean, v),
            Det_pix_v16(txt, texto_clean, v),
            Det_santander_pix(texto_clean, v),
            Det_boleto_rev(texto_clean, v),
            Det_sicoob(txt, v),
            Det_santander_original(txt, texto_clean, v),
            Det_imposto(txt, texto_clean, v),
            Det_boleto(txt, texto_clean, v),
            Det_favorecido(texto_clean, v) >>
    ELSE << Det_bradesco_controle(texto_clean, v),
            Det_pix_sanitized(txt, v),
            Det_ted(texto_clean, v),
            Det_boleto_sanitized(texto_clean, v),
            Det_favorecido(texto_clean, v) >>

\* the list `candidatos` after the detectors dets[k..] have run
RECURSIVE Candidatos(_, _)
Candidatos(dets, k) ==
    IF k > Len(dets) THEN <<>> ELSE dets[k].cands \o Candidatos(dets, k + 1)

\* debug_info after the assignments to 'tipo' and 'benef_metodo_skip' of dets[k..]
RECURSIVE DebugDetectores(_, _, _)
DebugDetectores(dets, k, dbg) ==
    IF k > Len(dets) THEN dbg
    ELSE LET d == dets[k]
             d1 == IF d.tipo # <<>> /\ (d.tipo[1].forca \/ ~Has(dbg, "tipo"))
                   THEN Put(dbg, "tipo", d.tipo[1].valor) ELSE dbg
             d2 == IF d.skip # <<>> THEN Put(d1, "benef_metodo_skip", d.skip[1]) ELSE d1
         IN  DebugDetectores(dets, k + 1, d2)

\* nome_norm = c['nome'].upper().strip()
nome_norm(c) == strip(upper(c.nome))

\* the dict `unicos` is the sequence of its values in insertion order of their keys;
\* the key of a value c is nome_norm(c)
IndexOfNome(u, n) ==
    IF \E k \in 1..Len(u) : nome_norm(u[k]) = n
    THEN CHOOSE k \in 1..Len(u) : nome_norm(u[k]) = n
    ELSE 0

AtualizaUnicosBenef_menor(u, c) ==
    The({ IF k = 0 THEN Append(u, c)
          ELSE IF c.score < u[k].score THEN [u EXCEPT ![k] = c]
          ELSE u :
          k \in {IndexOfNome(u, nome_norm(c))} })

\* if nome_norm not in unicos or c['score'] > unicos[nome_norm]['score']: unicos[nome_norm] = c
AtualizaUnicosBenef(u, c) ==
    The({ IF k = 0 THEN Append(u, c)
          ELSE IF c.score > u[k].score THEN [u EXCEPT ![k] = c]
          ELSE u :
          k \in {IndexOfNome(u, nome_norm(c))} })

RECURSIVE DedupBenef(_, _, _)
DedupBenef(cands, k, u) ==
    IF k > Len(cands) THEN u
    ELSE DedupBenef(cands, k + 1, AtualizaUnicosBenef(u, cands[k]))

Melhor_ultimo(u) ==
    u[CHOOSE k \in 1..Len(u) :
          /\ \A j \in 1..Len(u) : u[j].score <= u[k].score
          /\ \A j \in (k + 1)..Len(u) : u[j].score < u[k].score]

\* max(unicos.values(), key=lambda x: x['score']): the first value of greatest score
Melhor(u) ==
    u[CHOOSE k \in 1..Len(u) :
          /\ \A j \in 1..Len(u) : u[j].score <= u[k].score
          /\ \A j \in 1..(k - 1) : u[j].score < u[k].score]

DecisaoFinal_semErro(cands, dbg) ==
    IF cands # <<>>
    THEN The({ [ret |-> Melhor(u).nome, candidatos |-> cands, unicos |-> u,
                debug |-> Put(Put(Put(dbg, "benef_metodo", Melhor(u).metodo),
                                  "benef_score", Melhor(u).score),
                              "candidatos_total", Len(cands))] :
               u \in {DedupBenef(cands, 1, <<>>)} })
    ELSE [ret |-> FORNECEDOR_DESCONHECIDO, candidatos |-> <<>>, unicos |-> <<>>, debug |-> dbg]

\* the final decision: the best of the deduplicated candidates with its method and score
\* in debug_info, or the sentinel with benef_erro when there is no candidate
DecisaoFinal(cands, dbg) ==
    IF cands # <<>>
    THEN The({ [ret |-> Melhor(u).nome, candidatos |-> cands, unicos |-> u,
                debug |-> Put(Put(Put(dbg, "benef_metodo", Melhor(u).metodo),
                                  "benef_score", Melhor(u).score),
                              "candidatos_total", Len(cands))] :
               u \in {DedupBenef(cands, 1, <<>>)} })
    ELSE [ret |-> FORNECEDOR_DESCONHECIDO, candidatos |-> <<>>, unicos |-> <<>>,
          debug |-> Put(dbg, "benef_erro", "Nenhum candidato válido")]

\* extrair_beneficiario(texto, debug_info): the return value, the locals `candidatos`
\* and `unicos`, and debug_info at the return
extrair_beneficiario(txt, dbg, v) ==
    IF txt = <<>>
    THEN [ret |-> FORNECEDOR_DESCONHECIDO, candidatos |-> <<>>, unicos |-> <<>>,
          debug |-> Put(dbg, "benef_erro", "Texto vazio")]
    ELSE The({ The({ DecisaoFinal(Candidatos(dets, 1), DebugDetectores(dets, 1, dbg)) :
                     dets \in {Detectores(txt, texto_clean, v)} }) :
               texto_clean \in {collapse_spaces(txt)} })

(***************************************************************************)
(* tratar_fornecedor_desconhecido (v16)                                    *)
(***************************************************************************)
\* the list `padroes`: (regex, score); the regex is applied with IGNORECASE | DOTALL
padroes == <<
    \* CONTROLE DE PAGAMENTO\s+BENEFICI[AÁ]RIO:\s*([A-Z0-9\.\-&\s\(\)\/ÇÃÕÉÊÍÓÚÀÂ]{5,120})
    [re |-> <<Lit(<<"C", "O", "N", "T", "R", "O", "L", "E", " ", "D", "E", " ", "P", "A", "G", "A", "M", "E", "N", "T", "O">>),
            Plus(WS), Lit(<<"B", "E", "N", "E", "F", "I", "C", "I">>), One({"A", "Á", "a", "á"}),
            Lit(<<"R", "I", "O", ":">>), Star(WS), GOpen,
            Cls(Digit \cup AZ \cup WS \cup {"Ã", "Ç", "É", "Ó", "Ê", "Í", "Õ", "Ú", "À", "Â", "ã", "ç", "é", "ó", "ê", "í", "õ", "ú", "à", "â", ".", "/", "-", "(", ")", "&"}, 5, 120),
            GClose>>,
     score |-> 105],
    \* Conta[:\s]*[^\n/]+/\s*([A-Z0-9\.\-&\s\(\)\/]{5,120})
    [re |-> <<Lit(<<"C", "o", "n", "t", "a">>), Star(WS \cup {":"}), Plus(Sigma \ {"\n", "/"}), Lit(<<"/">>),
            Star(WS), GOpen, Cls(Digit \cup AZ \cup WS \cup {".", "/", "-", "(", ")", "&"}, 5, 120),
            GClose>>,
     score |-> 100],
    \* Cr[eé]dito[:\s\S]{0,300}?Nome[:\s]*([A-Z0-9\.\-&\s\(\)\/]{5,120})
    [re |-> <<Lit(<<"C", "r">>), One({"E", "É", "e", "é"}), Lit(<<"d", "i", "t", "o">>),
            LazyCls(Sigma, 0, 300), Lit(<<"N", "o", "m", "e">>), Star(WS \cup {":"}), GOpen,
            Cls(Digit \cup AZ \cup WS \cup {".", "/", "-", "(", ")", "&"}, 5, 120), GClose>>,
     score |-> 95],
    \* D[eé]bito[:\s\S]{0,300}?Nome[:\s]*([A-Z0-9\.\-&\s\(\)\/]{5,120})
    [re |-> <<Lit(<<"D">>), One({"E", "É", "e", "é"}), Lit(<<"b", "i", "t", "o">>), LazyCls(Sigma, 0, 300),
            Lit(<<"N", "o", "m", "e">>), Star(WS \cup {":"}), GOpen,
            Cls(Digit \cup AZ \cup WS \cup {".", "/", "-", "(", ")", "&"}, 5, 120), GClose>>,
     score |-> 94],
    \* DADOS DE QUEM RECEBEU[\s\S]{0,200}?NOME[:\s]*([A-Z0-9\.\-&\s\(\)\/]{5,120})
    [re |-> <<Lit(<<"D", "A", "D", "O", "S", " ", "D", "E", " ", "Q", "U", "E", "M", " ", "R", "E", "C", "E", "B", "E", "U">>),
            LazyCls(Sigma, 0, 200), Lit(<<"N", "O", "M", "E">>), Star(WS \cup {":"}), GOpen,
            Cls(Digit \cup AZ \cup WS \cup {".", "/", "-", "(", ")", "&"}, 5, 120), GClose>>,
     score |-> 92],
    \* FAVORECIDO[:\s]*([A-Z0-9\.\-&\s\(\)\/]{5,120})
    [re |-> <<Lit(<<"F", "A", "V", "O", "R", "E", "C", "I", "D", "O">>), Star(WS \cup {":"}), GOpen,
            Cls(Digit \cup AZ \cup WS \cup {".", "/", "-", "(", ")", "&"}, 5, 120), GClose>>,
     score |-> 90],
    \* RAZ[ÃA]O\s+SOCIAL\s+BENEFICIAR?IO(?:\s+FINAL)?[:\s]*([A-Z0-9\.\-&\s\(\)\/]{5,120})
    [re |-> <<Lit(<<"R", "A", "Z">>), One({"A", "Ã", "a", "ã"}), Lit(<<"O">>), Plus(WS),
            Lit(<<"S", "O", "C", "I", "A", "L">>), Plus(WS),
            Lit(<<"B", "E", "N", "E", "F", "I", "C", "I", "A">>), Cls({"R", "r"}, 0, 1), Lit(<<"I", "O">>),
            Opt(<<Plus(WS), Lit(<<"F", "I", "N", "A", "L">>)>>), Star(WS \cup {":"}), GOpen,
            Cls(Digit \cup AZ \cup WS \cup {".", "/", "-", "(", ")", "&"}, 5, 120), GClose>>,
     score |-> 88],
    \* EMPRESA\s*(?:/|\\s)?\s*ÓRG[ÃA]O[:\s]*([A-Z0-9\.\-&\s\(\)\/]{5,120})
    [re |-> <<Lit(<<"E", "M", "P", "R", "E", "S", "A">>), Star(WS),
            Opt(<<Alt(<< <<Lit(<<"/">>)>>, <<Lit(<<"\\", "s">>)>> >>)>>), Star(WS), Lit(<<"Ó", "R", "G">>),
            One({"A", "Ã", "a", "ã"}), Lit(<<"O">>), Star(WS \cup {":"}), GOpen,
            Cls(Digit \cup AZ \cup WS \cup {".", "/", "-", "(", ")", "&"}, 5, 120), GClose>>,
     score |-> 85],
    \* \bPARA[:\s]*([A-Z0-9\.\-&\s\(\)\/]{5,120})
    [re |-> <<WordB, Lit(<<"P", "A", "R", "A">>), Star(WS \cup {":"}), GOpen,
            Cls(Digit \cup AZ \cup WS \cup {".", "/", "-", "(", ")", "&"}, 5, 120), GClose>>,
     score |-> 80] >>

\* [\t\n\r]+
QuebraDeLinha_RE ==
    <<Plus({"\n"})>>

\* [A-ZÀ-Ú]
TemMaiuscula_RE ==
    <<One({"A", "B", "C", "D", "E", "F", "G", "H", "I", "J", "K", "L", "M", "N", "O", "P", "Q", "R", "S", "T", "U", "V", "W", "X", "Y", "Z", "Á", "Ã", "Ç", "É", "Ó", "Ê", "Í", "Õ", "Ú", "À", "Â"})>>

\* \b(AGENCIA|CONTA|CPF|CNPJ|CHAVE|BANC|VALOR|LOTE|NSU|LINHA|BARRAS|AUTENTICA)\b
PalavraTecnica_RE ==
    <<WordB, GOpen,
      Alt(<< <<LitC(<<"A", "G", "E", "N", "C", "I", "A">>)>>,
              <<LitC(<<"C", "O", "N", "T", "A">>)>>,
              <<LitC(<<"C", "P", "F">>)>>,
              <<LitC(<<"C", "N", "P", "J">>)>>,
              <<LitC(<<"C", "H", "A", "V", "E">>)>>,
              <<LitC(<<"B", "A", "N", "C">>)>>,
              <<LitC(<<"V", "A", "L", "O", "R">>)>>,
              <<LitC(<<"L", "O", "T", "E">>)>>,
              <<LitC(<<"N", "S", "U">>)>>,
              <<LitC(<<"L", "I", "N", "H", "A">>)>>,
              <<LitC(<<"B", "A", "R", "R", "A", "S">>)>>,
              <<LitC(<<"A", "U", "T", "E", "N", "T", "I", "C", "A">>)>> >>),
      GClose, WordB>>

\* str.strip(chars)
strip_chars(s, chars) ==
    IF \A i \in 1..Len(s) : s[i] \in chars THEN <<>>
    ELSE LET a == CHOOSE i \in 1..Len(s) : s[i] \notin chars /\ \A j \in 1..(i - 1) : s[j] \in chars
             b == CHOOSE i \in 1..Len(s) : s[i] \notin chars /\ \A j \in (i + 1)..Len(s) : s[j] \in chars
         IN  Slice(s, a, b + 1)

\* str.find(sub): the first position (from 1) where sub occurs in s, 0 if none (Python: -1)
find(s, lit) ==
    IF Contains(s, lit) THEN MinOf({i \in 1..(Len(s) + 1) : StartsAt(s, i, lit)}) ELSE 0

\* str.splitlines(), the line boundary being "\n"
splitlines(s) ==
    LET ends == {i \in 1..Len(s) : s[i] = "\n"} \cup (IF s # <<>> /\ s[Len(s)] # "\n" THEN {Len(s) + 1} ELSE {})
        EndOf(k) == CHOOSE e \in ends : Cardinality({x \in ends : x < e}) = k - 1
    IN  [k \in 1..Cardinality(ends) |->
            Slice(s, IF k = 1 THEN 1 ELSE EndOf(k - 1) + 1, EndOf(k))]

\* the candidate text of one pattern match: clean-up, removal of CNPJ and CPF,
\* then the same span in the original casing when the name is found in texto_orig
CandidatoTexto(texto_orig, grupo) ==
    The({ The({ IF snippet_raw # <<>> THEN snippet_raw ELSE nome :
                snippet_raw \in { The({ IF pos # 0 THEN SliceAte(texto_orig, pos, pos + Len(nome)) ELSE <<>> :
                                        pos \in {find(upper(texto_orig), upper(nome))} }) } }) :
          nome \in { strip(sub(CPF_RE, <<>>,
                       strip(sub(CNPJ_RE, <<>>,
                         strip_chars(collapse_spaces(sub(QuebraDeLinha_RE, <<" ">>, strip(grupo))),
                                     {" ", "/", "-"}))))) } })

\* the candidates (text, score) of padroes[k..], in the order of the list
RECURSIVE CandidatosPadroes(_, _, _, _)
CandidatosPadroes(texto_orig, texto_upper, k, v) ==
    IF k > Len(padroes) THEN <<>>
    ELSE The({ IF ~m.ok THEN <<>>
               ELSE The({ IF validar_nome(c, 5, v) THEN << <<strip(c), padroes[k].score>> >> ELSE <<>> :
                          c \in {CandidatoTexto(texto_orig, group1(texto_upper, m))} }) :
               m \in {search(padroes[k].re, texto_upper)} })
         \o CandidatosPadroes(texto_orig, texto_upper, k + 1, v)

\* a line of the last resort: long enough, with a capital letter, without a technical word, valid
LinhaServe(ln, v) ==
    /\ Len(ln) >= 6
    /\ search(TemMaiuscula_RE, upper(ln)).ok
    /\ ~search(PalavraTecnica_RE, upper(ln)).ok
    /\ validar_nome(ln, 5, v)

\* the last resort: the first of the longest lines that serve (score 50)
MaiorLinha(texto_orig, v) ==
    The({ The({ IF boas = {} THEN <<>>
                ELSE << <<strip(lines[MinOf({k \in boas : \A j \in boas : Len(lines[j]) <= Len(lines[k])})]),
                          50>> >> :
                boas \in {{p[1] : p \in {q \in {<<k, LinhaServe(lines[k], v)>> : k \in 1..Len(lines)} : q[2]}}} }) :
          lines \in { The({ [k \in 1..Len(ls) |-> strip(ls[k])] :
                            ls \in {SelectSeq(splitlines(texto_orig), LAMBDA ln : strip(ln) # <<>>)} }) } })

\* candidatos.sort(key=lambda x: -x[1]); candidatos[0]: the first candidate of greatest score
MelhorCandidato(cands) ==
    cands[MinOf({k \in 1..Len(cands) : \A j \in 1..Len(cands) : cands[j][2] <= cands[k][2]})]

\* the list `candidatos` at the end: the candidates of padroes or, when there is none,
\* the last resort
TodosCandidatos(txt, v) ==
    IF txt = <<>> THEN <<>>
    ELSE The({ IF cands # <<>> THEN cands ELSE MaiorLinha(txt, v) :
               cands \in {CandidatosPadroes(txt, upper(collapse_spaces(txt)), 1, v)} })

tratar_fornecedor_desconhecido(txt, v) ==
    The({ IF todos # <<>> THEN strip(MelhorCandidato(todos)[1]) ELSE FORNECEDOR_DESCONHECIDO :
          todos \in {TodosCandidatos(txt, v)} })

\* main: the second attempt is made by v16 only, and only for the sentinel
ChamaTratar(ret, v) == v = "v16" /\ ret = FORNECEDOR_DESCONHECIDO

SegundaTentativa(ret, txt, v) ==
    IF ChamaTratar(ret, v) THEN tratar_fornecedor_desconhecido(txt, v) ELSE ret

(***************************************************************************)
(* Study of extrair_beneficiario: the function is applied once to each     *)
(* text made of at most MaxFragsBenef of the fragments below, by each of   *)
(* the two scripts.                                                        *)
(***************************************************************************)
MaxFragsBenef == 2

FragmentosBenef == <<
    <<"F", "a", "v", "o", "r", "e", "c", "i", "d", "o", ":", " ", "J", "O", "A", "O", " ", "S", "I", "L", "V", "A", " ", "V", "a", "l", "o", "r", " ">>,
    <<"F", "a", "v", "o", "r", "e", "c", "i", "d", "o", ":", " ", "o", "m", "e", "g", "a", " ", "s", "e", "r", "v", "i", "c", "o", "s", " ", "g", "e", "r", "a", "i", "s", " ", "C", "N", "P", "J", " ">>,
    <<"F", "a", "v", "o", "r", "e", "c", "i", "d", "o", ":", " ", "c", "o", "n", "t", "a", " ", "a", "z", "u", "l", " ", "C", "P", "F", " ">>,
    <<"R", "a", "z", "ã", "o", " ", "S", "o", "c", "i", "a", "l", " ", "B", "e", "n", "e", "f", "i", "c", "i", "á", "r", "i", "o", ":", " ", "O", "M", "E", "G", "A", " ", "S", "E", "R", "V", "I", "C", "O", "S", " ", "G", "E", "R", "A", "I", "S", " ", "C", "N", "P", "J", " ">>,
    <<"B", "e", "n", "e", "f", "i", "c", "i", "á", "r", "i", "o", " ", "F", "i", "n", "a", "l", ":", " ", "J", "O", "A", "O", " ", "S", "I", "L", "V", "A", " ", "C", "P", "F", " ", "F", "a", "v", "o", "r", "e", "c", "i", "d", "o", ":", " ", "J", "O", "A", "O", " ", "S", "I", "L", "V", "A", " ", "C", "P", "F", " ">>,
    <<"T", "A", "X", "A", " ", "R", "J", "-", "G", "R", "E", "R", "J", " ", "E", "L", "E", "T", "R", "O", "N", "I", "C", "A", ".", " ", "B", "e", "n", "e", "f", "i", "c", "i", "á", "r", "i", "o", ":", " ", "N", "o", "m", "e", "/", "R", "a", "z", "ã", "o", " ", "S", "o", "c", "i", "a", "l", ":", " ", "R", "J", "-", "G", "R", "E", "R", "J", " ", "E", "L", "E", "T", "R", "O", "N", "I", "C", "A", " ", "C", "P", "F", "/", "C", "N", "P", "J", " ">>,
    <<"I", "M", "P", "O", "S", "T", "O", " ", "E", "m", "p", "r", "e", "s", "a", " ", "/", " ", "Ó", "r", "g", "ã", "o", ":", " ", "S", "E", "F", "A", "Z", " ", "R", "J", " ", "1", "2", ".", "3", "4", "5", " ", "R", "J", "-", "A", "B", "C", "D", "E", ",", " ">>,
    <<"C", "o", "n", "t", "r", "o", "l", "e", " ", "d", "e", " ", "P", "a", "g", "a", "m", "e", "n", "t", "o", " ", "B", "e", "n", "e", "f", "i", "c", "i", "á", "r", "i", "o", ":", " ", "M", "A", "R", "I", "O", " ", "P", "A", "S", "T", "O", "R", "E", " ", "C", "P", "F", "/", "C", "N", "P", "J", ":", " ", "1", "2", "3", ".", "4", "5", "6", ".", "7", "8", "9", "-", "0", "0", " ">>,
    <<"C", "r", "é", "d", "i", "t", "o", ":", " ", "N", "o", "m", "e", ":", " ", "P", "E", "D", "R", "O", " ", "A", "L", "V", "E", "S", " ", "A", "g", "ê", "n", "c", "i", "a", " ">>,
    <<"P", "I", "X", " ", "D", "a", "d", "o", "s", " ", "d", "e", " ", "q", "u", "e", "m", " ", "r", "e", "c", "e", "b", "e", "u", "\n", "N", "o", "m", "e", ":", " ", "P", "e", "d", "r", "o", " ", " ", "A", "l", "v", "e", "s", " ", "C", "P", "F", "/", "C", "N", "P", "J", " ">> >>

TextosBenef == Concats(FragmentosBenef, MaxFragsBenef)

InitBenef ==
    /\ versao \in Versoes
    /\ texto \in TextosBenef
    /\ pc = "extrair_beneficiario"
    /\ valores_encontrados = <<>>
    /\ candidatos = <<>>
    /\ unicos = <<>>
    /\ resultado = <<>>
    /\ debug_info = EmptyDict
    /\ entrada = {}
    /\ SemExecucao

ExtrairBeneficiario ==
    /\ pc = "extrair_beneficiario"
    /\ \E r \in {extrair_beneficiario(texto, debug_info, versao)} :
        /\ candidatos' = r.candidatos
        /\ unicos' = r.unicos
        /\ resultado' = r.ret
        /\ debug_info' = r.debug
    /\ pc' = "done_beneficiario"
    /\ UNCHANGED <<versao, texto, valores_encontrados>>
    /\ UNCHANGED mainVars

NextBenef == ExtrairBeneficiario

SpecBenef == InitBenef /\ [][NextBenef]_vars

(***************************************************************************)
(* Properties of extrair_beneficiario (checked under SpecBenef)            *)
(***************************************************************************)
\* the greatest score of the list `candidatos`
MaiorScore == MaxOf({candidatos[k].score : k \in 1..Len(candidatos)})

\* the normalized names of the candidates
Grupos == {nome_norm(candidatos[k]) : k \in 1..Len(candidatos)}

\* the greatest score among the candidates of one group
MaiorScoreDoGrupo(n) ==
    MaxOf({candidatos[k].score : k \in {j \in 1..Len(candidatos) : nome_norm(candidatos[j]) = n}})

\* C9: the validated candidates are grouped by upper-cased, trimmed name; unicos
\* holds one entry per group, with the greatest score of the group; the name
\* returned is that of a group whose score is the greatest of all, so that no
\* candidate has a score above the one of the candidate returned.
C9_MaiorScore ==
    (pc = "done_beneficiario" /\ candidatos # <<>>) =>
        /\ {nome_norm(unicos[k]) : k \in 1..Len(unicos)} = Grupos
        /\ Len(unicos) = Cardinality(Grupos)
        /\ \A k \in 1..Len(unicos) : unicos[k].score = MaiorScoreDoGrupo(nome_norm(unicos[k]))
        /\ \E k \in 1..Len(unicos) : /\ unicos[k].nome = resultado
                                     /\ unicos[k].score = MaiorScore
                                     /\ debug_info["benef_score"] = MaiorScore
        /\ \A k \in 1..Len(candidatos) : candidatos[k].score <= debug_info["benef_score"]

\* a group that was emitted with two different scores, next to another group
C9_Witness ==
    /\ pc = "done_beneficiario"
    /\ Cardinality(Grupos) >= 2
    /\ \E j, k \in 1..Len(candidatos) :
        /\ nome_norm(candidatos[j]) = nome_norm(candidatos[k])
        /\ candidatos[j].score < candidatos[k].score
        /\ candidatos[k].score = MaiorScore
        /\ strip(upper(resultado)) = nome_norm(candidatos[k])

\* position in `candidatos` (registration order of the detectors) of the first
\* candidate of group n that has the greatest score
PrimeiroNoMaximo(n) ==
    MinOf({k \in 1..Len(candidatos) : nome_norm(candidatos[k]) = n /\ candidatos[k].score = MaiorScore})

\* the groups whose score is the greatest
GruposNoMaximo == {n \in Grupos : MaiorScoreDoGrupo(n) = MaiorScore}

\* C10: when several names share the greatest score, the one returned is the
\* name whose candidate of greatest score comes from the earliest-registered
\* detector, also when that name was emitted before with a lower score.
C10_PrimeiroRegistrado ==
    (pc = "done_beneficiario" /\ candidatos # <<>>) =>
        \A n \in GruposNoMaximo :
            PrimeiroNoMaximo(strip(upper(resultado))) <= PrimeiroNoMaximo(n)

\* two names share the greatest score and one of them was emitted before with a
\* lower score
C10_Witness ==
    /\ pc = "done_beneficiario"
    /\ Cardinality(GruposNoMaximo) >= 2
    /\ \E n \in GruposNoMaximo : \E k \in 1..Len(candidatos) :
        /\ nome_norm(candidatos[k]) = n
        /\ candidatos[k].score < MaiorScore
        /\ k < PrimeiroNoMaximo(n)

(***************************************************************************)
(* Text of a page, payer, bar-code snippet and file name                   *)
(***************************************************************************)
MAX_NAME_LEN == 60
BARCODE_TAIL_LEN == 6
PIX_PREFIX == <<"N">>

LIT_OUTROS == <<"O", "U", "T", "R", "O", "S">>
LIT_PDF == <<".", "p", "d", "f">>
LIT_SEP == <<" ", "-", " ">>
LIT_PART == <<"_", "p", "a", "r", "t">>

\* characters outside the alphabet of the texts, written as tokens
\* the value None of an argument (a str is a sequence of one-character strings)
NONE == <<"{None}">>

LIG_FI == "{U+FB01}"      \* the ligature fi
LIG_FL == "{U+FB02}"      \* the ligature fl
LINE_SEP == "{U+2028}"    \* the line separator

\* `if x` of a str or None
Vazio(x) == x = <<>> \/ x = NONE

NBSP == "{U+00A0}"        \* the no-break space
TIL == "{U+0303}"         \* the combining tilde
DROP == "{}"              \* the place of a character taken away

\* the letters that have a composed form with the tilde, and those forms
BasesTil == <<"A", "E", "I", "N", "O", "U", "V", "Y", "a", "e", "i", "n", "o", "u", "v", "y">>
CompostosTil == <<"Ã", "{U+1EBC}", "{U+0128}", "Ñ", "Õ", "{U+0168}", "{U+1E7C}", "{U+1EF8}", "ã", "{U+1EBD}", "{U+0129}", "ñ", "õ", "{U+0169}", "{U+1E7D}", "{U+1EF9}">>
ComTil(c) == CompostosTil[CHOOSE k \in 1..Len(BasesTil) : BasesTil[k] = c]
TemComposto(c) == \E k \in 1..Len(BasesTil) : BasesTil[k] = c

\* unicodedata.normalize("NFKC", s) over the characters of a text, the ligatures, the
\* no-break space and the combining tilde: the compatibility characters are replaced,
\* then a tilde is composed with the letter before it when the composed letter exists
\* (the composed letters of a text are left as they are)
NFKC(s) ==
    The({ SelectSeq([i \in 1..Len(r) |->
                        IF r[i] = TIL /\ i > 1 /\ TemComposto(r[i - 1]) THEN DROP
                        ELSE IF i < Len(r) /\ r[i + 1] = TIL /\ TemComposto(r[i]) THEN ComTil(r[i])
                        ELSE r[i]],
                    LAMBDA c : c # DROP) :
          r \in {replace(replace([i \in 1..Len(s) |-> IF s[i] = NBSP THEN " " ELSE s[i]],
                                 LIG_FI, <<"f", "i">>), LIG_FL, <<"f", "l">>)} })

limpar_texto_semVazio(s) ==
    IF Vazio(s) THEN s
    ELSE NFKC(replace(replace(replace(s, LIG_FI, <<"f", "i">>), LIG_FL, <<"f", "l">>), LINE_SEP, <<" ">>))

\* limpar_texto: "" for an empty text or None; the two ligatures and the line separator
\* are replaced, then the text is normalized
limpar_texto(s) ==
    IF Vazio(s) THEN <<>>
    ELSE NFKC(replace(replace(replace(s, LIG_FI, <<"f", "i">>), LIG_FL, <<"f", "l">>), LINE_SEP, <<" ">>))

\* _extrair_texto_pypdf2 / extrair_texto_pdf on a one-page part whose page has the text t:
\* a page without text (or a part that cannot be read) contributes nothing
extrair_texto_pdf(t) == limpar_texto(IF t # <<>> THEN t \o <<"\n">> ELSE <<>>)

\* EMPRESAS: code and aliases, in the order of the dict
EMPRESAS(v) ==
    IF v = "v16"
    THEN << [key |-> <<"L", "I", "F", "E", "_", "S", "C", "I", "E", "N", "C", "E">>,
             aliases |-> << <<"F", "A", "R", "M", "A", "U", "S", "A", " ", "L", "I", "F", "E", " ", "S", "C", "I", "E", "N", "C", "E">>,
                            <<"L", "I", "F", "E", " ", "S", "C", "I", "E", "N", "C", "E">> >>],
            [key |-> <<"U", "R", "B", "A", "N", "B", "O", "X">>,
             aliases |-> << <<"U", "R", "B", "A", "N", "B", "O", "X">> >>],
            [key |-> <<"P", "H", "A", "R", "M", "A", "C", "E", "U", "T", "I", "C", "A", "L">>,
             aliases |-> << <<"F", "A", "R", "M", "A", "U", "S", "A", " ", "P", "H", "A", "R", "M", "A", "C", "E", "U", "T", "I", "C", "A", "L">>,
                            <<"F", "A", "R", "M", "A", "U", "S", "A", " ", "P", "H", "A", "R", "M", "A", "C", "E", "U", "T", "I", "C", "A", "L", " ", "L", "T", "D", "A">> >>] >>
    ELSE << [key |-> <<"D", "I", "V", "I", "S", "I", "O", "N", "_", "A">>,
             aliases |-> << <<"C", "O", "M", "P", "A", "N", "Y", " ", "A", " ", "N", "A", "M", "E">>,
                            <<"C", "O", "M", "P", "A", "N", "Y", " ", "A", " ", "A", "L", "I", "A", "S">> >>],
            [key |-> <<"D", "I", "V", "I", "S", "I", "O", "N", "_", "B">>,
             aliases |-> << <<"C", "O", "M", "P", "A", "N", "Y", " ", "B", " ", "N", "A", "M", "E">> >>],
            [key |-> <<"D", "I", "V", "I", "S", "I", "O", "N", "_", "C">>,
             aliases |-> << <<"C", "O", "M", "P", "A", "N", "Y", " ", "C", " ", "L", "E", "G", "A", "L", " ", "N", "A", "M", "E">>,
                            <<"C", "O", "M", "P", "A", "N", "Y", " ", "C", " ", "T", "R", "A", "D", "I", "N", "G", " ", "N", "A", "M", "E">> >>] >>

\* the first code, in dict order, one of whose aliases occurs in the upper-cased text
\* the last key of the table with an alias in the text
identificar_empresa_ultimo(txt, v) ==
    The({ The({ IF hits = {} THEN LIT_OUTROS ELSE EMPRESAS(v)[MaxOf(hits)].key :
                hits \in {{k \in 1..Len(EMPRESAS(v)) :
                             \E a \in 1..Len(EMPRESAS(v)[k].aliases) :
                                 Contains(t, upper(EMPRESAS(v)[k].aliases[a]))}} }) :
          t \in {upper(IF txt = NONE THEN <<>> ELSE txt)} })

\* t = (texto or "").upper(); the first key of the table with an alias in t
identificar_empresa(txt, v) ==
    The({ The({ IF hits = {} THEN LIT_OUTROS ELSE EMPRESAS(v)[MinOf(hits)].key :
                hits \in {{k \in 1..Len(EMPRESAS(v)) :
                             \E a \in 1..Len(EMPRESAS(v)[k].aliases) :
                                 Contains(t, upper(EMPRESAS(v)[k].aliases[a]))}} }) :
          t \in {upper(IF txt = NONE THEN <<>> ELSE txt)} })

\* unicodedata.normalize("NFKD", c) without the combining marks: the base letter
BaseUpper == <<"A", "A", "C", "E", "O", "E", "I", "O", "U", "A", "A">>
BaseLower == <<"a", "a", "c", "e", "o", "e", "i", "o", "u", "a", "a">>
SemAcento(c) ==
    IF \E i \in 1..Len(BaseUpper) : UpperSeq[26 + i] = c
    THEN BaseUpper[CHOOSE i \in 1..Len(BaseUpper) : UpperSeq[26 + i] = c]
    ELSE IF \E i \in 1..Len(BaseLower) : LowerSeq[26 + i] = c
    THEN BaseLower[CHOOSE i \in 1..Len(BaseLower) : LowerSeq[26 + i] = c]
    ELSE c

\* [\\/\\:\*\?"<>\|]
Ilegais == {"\\", "/", ":", "*", "?", "\"", "<", ">", "|"}
\* [0-9A-Za-z_\-\s\(\)\[\]]
Permitidos == Digit \cup AsciiUpper \cup AsciiLower \cup {"_", "-", "(", ")", "[", "]"} \cup WS

\* "_".join(name.split())
join_split(s) == sub(<<Plus(WS)>>, <<"_">>, strip(s))

\* the steps before the cut: name or "", strip, NFKD without the combining marks, the two
\* re.sub and "_".join(name.split())
Limpo(name) ==
    The({ join_split(SelectSeq(SelectSeq([i \in 1..Len(n) |-> SemAcento(n[i])],
                                         LAMBDA c : c \notin Ilegais),
                               LAMBDA c : c \in Permitidos)) :
          n \in {strip(IF name = NONE THEN <<>> ELSE name)} })

sanitize_filename_semCorte(name) ==
    The({ IF n = <<>> THEN FORNECEDOR_DESCONHECIDO ELSE n : n \in {Limpo(name)} })

sanitize_filename(name) ==
    The({ IF n = <<>> THEN FORNECEDOR_DESCONHECIDO ELSE n :
          n \in { The({ IF Len(j) > MAX_NAME_LEN THEN Slice(j, 1, MAX_NAME_LEN + 1) ELSE j :
                        j \in {Limpo(name)} }) } })

\* str(n) for n >= 0
DigitSeq == <<"0", "1", "2", "3", "4", "5", "6", "7", "8", "9">>
RECURSIVE Str(_)
Str(n) == IF n < 10 THEN <<DigitSeq[n + 1]>> ELSE Str(n \div 10) \o <<DigitSeq[(n % 10) + 1]>>

LIT_MARIO_PASTORE_NOME == <<"M", "A", "R", "I", "O", " ", "P", "A", "S", "T", "O", "R", "E">>
LIT_JOAO_CIA_NOME == <<"J", "o", "ã", "o", " ", "&", " ", "C", "i", "a", ".", " ", "L", "t", "d", "a", "/", "M", "a", "t", "r", "i", "z">>
LIT_50_00 == <<"5", "0", ",", "0", "0">>
LIT_123456 == <<"1", "2", "3", "4", "5", "6">>
LIT_12 == <<"1", "2">>

montar_nome_semTeste(benef, valor, cont, snippet) ==
    PIX_PREFIX \o Str(cont) \o LIT_SEP \o sanitize_filename(benef) \o LIT_SEP
    \o (IF ~Vazio(snippet) THEN snippet \o LIT_SEP ELSE <<>>)
    \o (IF ~Vazio(valor) THEN valor ELSE VALOR_NAO_ENCONTRADO) \o LIT_PDF

montar_nome_semValor(benef, valor, cont, snippet) ==
    LET benef_safe == sanitize_filename(benef)
        valor_safe == IF valor # NONE THEN valor ELSE VALOR_NAO_ENCONTRADO
        base == IF ~Vazio(snippet)
                THEN benef_safe \o LIT_SEP \o snippet \o LIT_SEP \o valor_safe
                ELSE benef_safe \o LIT_SEP \o valor_safe
    IN  IF cont > 1
        THEN PIX_PREFIX \o Str(cont) \o LIT_SEP \o base \o LIT_PDF
        ELSE base \o LIT_PDF

montar_nome(benef, valor, cont, snippet) ==
    LET benef_safe == sanitize_filename(benef)
        valor_safe == IF ~Vazio(valor) THEN valor ELSE VALOR_NAO_ENCONTRADO
        base == IF ~Vazio(snippet)
                THEN benef_safe \o LIT_SEP \o snippet \o LIT_SEP \o valor_safe
                ELSE benef_safe \o LIT_SEP \o valor_safe
    IN  IF cont > 1
        THEN PIX_PREFIX \o Str(cont) \o LIT_SEP \o base \o LIT_PDF
        ELSE base \o LIT_PDF

\* LINHA\s+DIGIT|CODIGO\s+DE\s+BARRAS|NOSSO\s+N
TemLinhaDigitavel_v16_RE ==
    <<Alt(<< <<Lit(<<"L", "I", "N", "H", "A">>), Plus(WS), Lit(<<"D", "I", "G", "I", "T">>)>>,
              <<Lit(<<"C", "O", "D", "I", "G", "O">>), Plus(WS), Lit(<<"D", "E">>), Plus(WS), Lit(<<"B", "A", "R", "R", "A", "S">>)>>,
              <<Lit(<<"N", "O", "S", "S", "O">>), Plus(WS), Lit(<<"N">>)>> >>)>>

\* LINHA\s+DIGIT|CODIGO\s+DE\s+BARRAS
TemLinhaDigitavel_sanitized_RE ==
    <<Alt(<< <<Lit(<<"L", "I", "N", "H", "A">>), Plus(WS), Lit(<<"D", "I", "G", "I", "T">>)>>,
              <<Lit(<<"C", "O", "D", "I", "G", "O">>), Plus(WS), Lit(<<"D", "E">>), Plus(WS), Lit(<<"B", "A", "R", "R", "A", "S">>)>> >>)>>

\* ([0-9]{20,60})
Sequencia_RE ==
    <<GOpen, Cls(Digit, 20, 60), GClose>>

\* extrair_linha_digitavel_ou_codbarra (v16) / extrair_linha_digitavel (sanitized)
extrair_linha_digitavel(txt) ==
    IF txt = <<>> THEN <<>>
    ELSE The({ The({ IF m.ok THEN group1(texto_limpo, m) ELSE <<>> :
                     m \in {search(Sequencia_RE, texto_limpo)} }) :
               texto_limpo \in {sub(<<Plus(WS)>>, <<>>, txt)} })

\* the snippet of main: the last BARCODE_TAIL_LEN digits of the sequence, when the text
\* mentions a bar code
Snippet(txt, v) ==
    IF search(IF v = "v16" THEN TemLinhaDigitavel_v16_RE ELSE TemLinhaDigitavel_sanitized_RE, txt).ok
    THEN The({ IF seq = <<>> THEN <<>>
               ELSE IF Len(seq) >= BARCODE_TAIL_LEN
                    THEN Slice(seq, Len(seq) - BARCODE_TAIL_LEN + 1, Len(seq) + 1)
                    ELSE seq :
               seq \in {extrair_linha_digitavel(txt)} })
    ELSE <<>>

(***************************************************************************)
(* main: one run splits every document of the input folder into one-page   *)
(* parts, sorts the part names and processes the parts in that order.      *)
(***************************************************************************)
\* str.endswith
endswith(s, suffix) ==
    Len(s) >= Len(suffix) /\ StartsAt(s, Len(s) - Len(suffix) + 1, suffix)

\* Path(name).stem / os.path.splitext(name)[0]: the name without its last suffix
SemSufixo(name) ==
    The({ IF dots = {} THEN name ELSE Slice(name, 1, MaxOf(dots)) :
          dots \in {{i \in 2..Len(name) : name[i] = "." /\ \E j \in 1..(i - 1) : name[j] # "."}} })

CodePoints == <<
    "\n", " ", "$", "&", "(", ")", "*", ",", "-", ".", "/", "0", "1", "2", "3", "4", "5", "6",
    "7", "8", "9", ":", "A", "B", "C", "D", "E", "F", "G", "H", "I", "J", "K", "L", "M", "N",
    "O", "P", "Q", "R", "S", "T", "U", "V", "W", "X", "Y", "Z", "\\", "_", "a", "b", "c", "d",
    "e", "f", "g", "h", "i", "j", "k", "l", "m", "n", "o", "p", "q", "r", "s", "t", "u", "v",
    "w", "x", "y", "z", "À", "Á", "Â", "Ã", "Ç", "É", "Ê", "Í", "Ó", "Õ", "Ú", "à", "á", "â",
    "ã", "ç", "é", "ê", "í", "ó", "õ", "ú" >>

\* the order of str comparison: by code point, character by character
Ord == [c \in {CodePoints[i] : i \in 1..Len(CodePoints)} |->
           CHOOSE i \in 1..Len(CodePoints) : CodePoints[i] = c]
StrLess(a, b) ==
    The({ IF diff = {} THEN Len(a) < Len(b)
          ELSE The({ Ord[a[d]] < Ord[b[d]] : d \in {MinOf(diff)} }) :
          diff \in {{j \in 1..(IF Len(a) < Len(b) THEN Len(a) ELSE Len(b)) : a[j] # b[j]}} })

\* list.sort() of a list of distinct strings: the k-th is the one with k - 1 smaller ones
Sorted(S) ==
    The({ [k \in 1..Cardinality(S) |-> (CHOOSE p \in ranks : p[2] = k - 1)[1]] :
          ranks \in {{<<x, Cardinality({y \in S : StrLess(y, x)})>> : x \in S}} })

\* originais: the files of the input folder that main splits
Originais(ent) == {d \in ent : endswith(lower(d.nome), LIT_PDF) /\ ~Contains(d.nome, LIT_PART)}

\* separar_em_partes: one file "{stem}_part{i+1}.pdf" per page, holding that page
separar_em_partes(d) ==
    {[nome |-> SemSufixo(d.nome) \o LIT_PART \o Str(i) \o LIT_PDF, doc |-> d.nome, pagina |-> i] :
        i \in 1..Len(d.paginas)}

\* the text of the page held by a part
TextoDaParte(ent, p) == (CHOOSE d \in ent : d.nome = p.doc).paginas[p.pagina]

EXTRATOR_V16 == <<"P", "y", "P", "D", "F", "2", " ", "(", "P", "a", "d", "r", "ã", "o", ":", " ", "Ú", "n", "i", "c", "o", ")">>
EXTRATOR_SANITIZED == <<"P", "y", "P", "D", "F", "2">>

\* the body of the loop up to the key: text, payee (with the second attempt of v16),
\* amount, payer, snippet and the diagnostics, for a part whose page has the text t
Pagina(t, v) ==
    The({ The({ The({ [texto |-> txt,
                       beneficiario |-> SegundaTentativa(b.ret, txt, v),
                       valor |-> val.ret,
                       empresa |-> identificar_empresa(txt, v),
                       snippet |-> Snippet(txt, v),
                       debug |-> val.debug] :
                      val \in {extrair_valor(txt, b.debug, v)} }) :
                b \in {extrair_beneficiario(txt,
                          IF v = "v16"
                          THEN Put(Put(EmptyDict, "extrator", EXTRATOR_V16), "texto_bruto_inicio",
                                   replace(Slice(txt, 1, (IF Len(txt) < 1000 THEN Len(txt) ELSE 1000) + 1),
                                           "\n", <<" ">>))
                          ELSE Put(EmptyDict, "extrator", EXTRATOR_SANITIZED),
                          v)} }) :
          txt \in {extrair_texto_pdf(t)} })

\* 'Controle de Pagamento Beneficiário: MARIO PASTORE CPF/CNPJ: 123.456.789-00\nValor principal: R$ 8.000,00\nPagador: URBANBOX / COMPANY B NAME'
PaginaControle ==
    <<"C", "o", "n", "t", "r", "o", "l", "e", " ", "d", "e", " ", "P", "a", "g", "a", "m", "e", "n", "t", "o", " ", "B", "e", "n", "e", "f", "i", "c", "i", "á", "r", "i", "o", ":", " ", "M", "A", "R", "I", "O", " ", "P", "A", "S", "T", "O", "R", "E", " ", "C", "P", "F", "/", "C", "N", "P", "J", ":", " ", "1", "2", "3", ".", "4", "5", "6", ".", "7", "8", "9", "-", "0", "0", "\n", "V", "a", "l", "o", "r", " ", "p", "r", "i", "n", "c", "i", "p", "a", "l", ":", " ", "R", "$", " ", "8", ".", "0", "0", "0", ",", "0", "0", "\n", "P", "a", "g", "a", "d", "o", "r", ":", " ", "U", "R", "B", "A", "N", "B", "O", "X", " ", "/", " ", "C", "O", "M", "P", "A", "N", "Y", " ", "B", " ", "N", "A", "M", "E">>

\* 'Favorecido: JOAO SILVA Valor: R$ 50,00'
PaginaFavorecido ==
    <<"F", "a", "v", "o", "r", "e", "c", "i", "d", "o", ":", " ", "J", "O", "A", "O", " ", "S", "I", "L", "V", "A", " ", "V", "a", "l", "o", "r", ":", " ", "R", "$", " ", "5", "0", ",", "0", "0">>

\* ''
PaginaVazia ==
    <<>>

\* 'Controle de Pagamento Beneficiário: JOÃO SILVA CPF/CNPJ: 123.456.789-00\nValor: R$ 50,00'
PaginaAcento ==
    <<"C", "o", "n", "t", "r", "o", "l", "e", " ", "d", "e", " ", "P", "a", "g", "a", "m", "e", "n", "t", "o", " ", "B", "e", "n", "e", "f", "i", "c", "i", "á", "r", "i", "o", ":", " ", "J", "O", "Ã", "O", " ", "S", "I", "L", "V", "A", " ", "C", "P", "F", "/", "C", "N", "P", "J", ":", " ", "1", "2", "3", ".", "4", "5", "6", ".", "7", "8", "9", "-", "0", "0", "\n", "V", "a", "l", "o", "r", ":", " ", "R", "$", " ", "5", "0", ",", "0", "0">>

\* 'Padaria Central\nLINHA DIGITAVEL 23793.38128 60000.000003 00000.000400 1 84340000012345\nR$ 7,50'
PaginaBoleto ==
    <<"P", "a", "d", "a", "r", "i", "a", " ", "C", "e", "n", "t", "r", "a", "l", "\n", "L", "I", "N", "H", "A", " ", "D", "I", "G", "I", "T", "A", "V", "E", "L", " ", "2", "3", "7", "9", "3", ".", "3", "8", "1", "2", "8", " ", "6", "0", "0", "0", "0", ".", "0", "0", "0", "0", "0", "3", " ", "0", "0", "0", "0", "0", ".", "0", "0", "0", "4", "0", "0", " ", "1", " ", "8", "4", "3", "4", "0", "0", "0", "0", "0", "1", "2", "3", "4", "5", "\n", "R", "$", " ", "7", ",", "5", "0">>

\* the page texts of the runs considered
Biblioteca == {PaginaControle, PaginaFavorecido, PaginaVazia, PaginaAcento, PaginaBoleto}

\* Pagina for every text of Biblioteca, computed once
Paginas == {<<v, t, Pagina(t, v)>> : v \in Versoes, t \in Biblioteca}
PaginaDe(t, v) == (CHOOSE r \in Paginas : r[1] = v /\ r[2] = t)[3]

\* contador = defaultdict(int)
Get(d, k) == IF Has(d, k) THEN d[k] ELSE 0

ContadorInicial_mantido(cont) == cont

\* main, before the loop: contador = defaultdict(int), whatever the run before left
ContadorInicial(cont) == EmptyDict

Incrementa_fixo(cont, chave) == Put(cont, chave, 1)

\* contador[chave] += 1
Incrementa(cont, chave) == Put(cont, chave, Get(cont, chave) + 1)

Destino_semTeste(out, pasta, nome_arquivo) == nome_arquivo

\* (mutant) `if` in place of `while`: only base_1.pdf is tried
Destino_umaVez(out, pasta, nome_arquivo) ==
    IF \E f \in out : f.pasta = pasta /\ f.nome = nome_arquivo
    THEN SemSufixo(nome_arquivo) \o <<"_", "1">> \o LIT_PDF
    ELSE nome_arquivo

\* the first of nome_arquivo, base_1.pdf, base_2.pdf, ... that is not in the folder
Destino(out, pasta, nome_arquivo) ==
    LET Tentativa(n) == IF n = 0 THEN nome_arquivo
                        ELSE SemSufixo(nome_arquivo) \o <<"_">> \o Str(n) \o LIT_PDF
    IN  The({ Tentativa(MinOf({n \in 0..Cardinality(ocupados) : Tentativa(n) \notin ocupados})) :
              ocupados \in {{f.nome : f \in {g \in out : g.pasta = pasta}}} })

\* shutil.copy2(part_path, dest): the file at dest now holds the page
Copia(out, pasta, dest, conteudo) ==
    {f \in out : ~(f.pasta = pasta /\ f.nome = dest)}
        \cup {[pasta |-> pasta, nome |-> dest, conteudo |-> conteudo]}

(***************************************************************************)
(* The runs of main.  The input folder holds up to three documents: two    *)
(* of at most MaxPaginas pages each and one whose name main ignores; main  *)
(* runs at most MaxExecucoes times on the same input folder, the output    *)
(* folder being kept from one run to the next.                             *)
(***************************************************************************)
MaxPaginas == 2
MaxExecucoes == 2
MaxPaginasLongo == 10

NOME_A == <<"a", ".", "p", "d", "f">>
NOME_B == <<"B", ".", "P", "D", "F">>
NOME_IGNORADO == <<"c", "_", "p", "a", "r", "t", "1", ".", "p", "d", "f">>

\* a document without pages stands for an empty or unreadable file
Entradas ==
    { {[nome |-> NOME_A, paginas |-> a], [nome |-> NOME_B, paginas |-> b]} \cup extra :
        a \in SeqsAte(Biblioteca, MaxPaginas), b \in SeqsAte(Biblioteca, MaxPaginas),
        extra \in {{}, {[nome |-> NOME_IGNORADO, paginas |-> <<PaginaFavorecido>>]}} }

\* one long document whose pages carry one of two keys
EntradasLongas ==
    { {[nome |-> NOME_A, paginas |-> a]} :
        a \in UNION {[1..k -> {PaginaFavorecido, PaginaAcento}] : k \in (MaxPaginasLongo - 1)..MaxPaginasLongo} }

InitMain ==
    /\ versao \in Versoes
    /\ entrada \in Entradas
    /\ pc = "main"
    /\ SemExtracao
    /\ SemExecucao

InitLongo ==
    /\ versao \in Versoes
    /\ entrada \in EntradasLongas
    /\ pc = "main"
    /\ SemExtracao
    /\ SemExecucao

\* main up to the loop: folders, empty logs and counter, split, listing and sort
MainStart ==
    /\ pc = "main"
    /\ execucao < MaxExecucoes
    /\ execucao' = execucao + 1
    /\ \E novos \in {UNION {separar_em_partes(d) : d \in Originais(entrada)}} :
        /\ temp_parts' = novos
        /\ partes' = Sorted({p.nome : p \in {q \in novos : endswith(lower(q.nome), LIT_PDF)}})
    /\ idx' = 0
    /\ arquivos_log' = <<>>
    /\ debug_logs' = <<>>
    /\ contador' = ContadorInicial(contador)
    /\ processed_sources' = {}
    /\ pc' = "loop"
    /\ UNCHANGED <<versao, entrada, saida, debug_log, zip_final, log_csv, ocorrencias>>
    /\ UNCHANGED extratorVars

\* one iteration of the loop over partes
ProcessPage ==
    /\ pc = "loop"
    /\ idx < Len(partes)
    /\ idx' = idx + 1
    /\ \E part_path \in {partes[idx + 1]} :
        IF part_path \in processed_sources \/ ~\E p \in temp_parts : p.nome = part_path
        THEN UNCHANGED <<texto, debug_info, contador, processed_sources, saida, arquivos_log,
                         debug_logs, ocorrencias>>
        ELSE \E p \in {CHOOSE q \in temp_parts : q.nome = part_path} :
             \E r \in {PaginaDe(TextoDaParte(entrada, p), versao)} :
             \E chave \in {<<r.empresa, r.beneficiario, r.valor>>} :
             \E cont \in {Incrementa(contador, chave)} :
             \E nome_arquivo \in {montar_nome(r.beneficiario, r.valor, cont[chave], r.snippet)} :
             \E dest \in {Destino(saida, r.empresa, nome_arquivo)} :
             \E dbg \in {Put(Put(r.debug, "arquivo", part_path), "nome_final", nome_arquivo)} :
                /\ processed_sources' = processed_sources \cup {part_path}
                /\ texto' = r.texto
                /\ contador' = cont
                /\ saida' = Copia(saida, r.empresa, dest, [execucao |-> execucao, doc |-> p.doc, pagina |-> p.pagina])
                /\ debug_info' = dbg
                /\ debug_logs' = Append(debug_logs, dbg)
                /\ arquivos_log' = Append(arquivos_log,
                                      [source |-> part_path, empresa |-> r.empresa,
                                       beneficiario |-> r.beneficiario, valor |-> r.valor,
                                       nome_final |-> dest])
                /\ ocorrencias' = Append(ocorrencias,
                                      [execucao |-> execucao, part |-> part_path, doc |-> p.doc,
                                       pagina |-> p.pagina, texto |-> r.texto, chave |-> chave,
                                       cnt |-> cont[chave], snippet |-> r.snippet,
                                       nome_arquivo |-> nome_arquivo, dest |-> dest])
    /\ UNCHANGED <<versao, pc, entrada, temp_parts, partes, execucao, debug_log, zip_final, log_csv>>
    /\ UNCHANGED <<valores_encontrados, candidatos, unicos, resultado>>

\* main after the loop: debug log, ZIP of the output folder, CSV, removal of the parts
MainFinish ==
    /\ pc = "loop"
    /\ idx = Len(partes)
    /\ debug_log' = debug_logs
    /\ zip_final' = {<<f.pasta, f.nome>> : f \in saida}
    /\ log_csv' = arquivos_log
    /\ temp_parts' = {}
    /\ pc' = "main"
    /\ UNCHANGED <<versao, entrada, saida, partes, idx, contador, processed_sources, arquivos_log,
                   debug_logs, execucao, ocorrencias>>
    /\ UNCHANGED extratorVars

Next == MainStart \/ ProcessPage \/ MainFinish

Spec == InitMain /\ [][Next]_vars

SpecLongo == InitLongo /\ [][Next]_vars

(***************************************************************************)
(* Properties of main (checked under Spec and SpecLongo)                   *)
(***************************************************************************)
\* the pages processed so far, up to the i-th, in the run and with the key of the i-th
AnterioresDaChave(i) ==
    {j \in 1..i : /\ ocorrencias[j].execucao = ocorrencias[i].execucao
                  /\ ocorrencias[j].chave = ocorrencias[i].chave}

\* the keys of the pages processed in the current run
ChavesDaExecucao ==
    {ocorrencias[i].chave : i \in {j \in 1..Len(ocorrencias) : ocorrencias[j].execucao = execucao}}

\* C1: within one run, the n-th processed page carrying a key gets occurrence number n,
\* whatever pages of other keys come in between, and the counter of every key is the
\* number of pages of that key processed in the run (so a page leaves the other keys alone)
C1_Ocorrencias ==
    /\ \A i \in 1..Len(ocorrencias) : ocorrencias[i].cnt = Cardinality(AnterioresDaChave(i))
    /\ DOMAIN contador = ChavesDaExecucao
    /\ \A k \in DOMAIN contador :
          contador[k] = Cardinality({i \in 1..Len(ocorrencias) :
                                        /\ ocorrencias[i].execucao = execucao
                                        /\ ocorrencias[i].chave = k})

\* a run in which a page of another key came between the first and the second page of a key
C1_Witness ==
    \E i, j, l \in 1..Len(ocorrencias) :
        /\ i < j /\ j < l
        /\ ocorrencias[i].execucao = ocorrencias[l].execucao
        /\ ocorrencias[j].execucao = ocorrencias[l].execucao
        /\ ocorrencias[i].chave = ocorrencias[l].chave
        /\ ocorrencias[j].chave # ocorrencias[l].chave
        /\ ocorrencias[i].cnt = 1 /\ ocorrencias[j].cnt = 1 /\ ocorrencias[l].cnt = 2

\* C2: of two pages of one document that share a key, the one with the smaller page
\* number gets the smaller occurrence number
C2_OrdemDasPaginas ==
    \A i, j \in 1..Len(ocorrencias) :
        (/\ ocorrencias[i].execucao = ocorrencias[j].execucao
         /\ ocorrencias[i].doc = ocorrencias[j].doc
         /\ ocorrencias[i].chave = ocorrencias[j].chave
         /\ ocorrencias[i].pagina < ocorrencias[j].pagina)
        => ocorrencias[i].cnt < ocorrencias[j].cnt

\* the name of a page without the occurrence marker
NomeBase(o) ==
    sanitize_filename(o.chave[2]) \o LIT_SEP
    \o (IF o.snippet # <<>> THEN o.snippet \o LIT_SEP ELSE <<>>) \o o.chave[3] \o LIT_PDF

\* C3: the file name starts with "N<occurrence> - " exactly when the occurrence number
\* is greater than 1, and what follows the marker is the name of a first occurrence
C3_Prefixo ==
    \A i \in 1..Len(ocorrencias) :
        LET o == ocorrencias[i]
            marca == PIX_PREFIX \o Str(o.cnt) \o LIT_SEP
        IN  /\ startswith(o.nome_arquivo, marca) <=> o.cnt > 1
            /\ o.nome_arquivo = (IF o.cnt > 1 THEN marca ELSE <<>>) \o NomeBase(o)

\* three pages of one key processed in a run: numbers 1, 2, 3, no marker, "N2 - ", "N3 - "
C3_Witness ==
    \E i, j, l \in 1..Len(ocorrencias) :
        /\ i < j /\ j < l
        /\ ocorrencias[i].execucao = ocorrencias[l].execucao
        /\ ocorrencias[j].execucao = ocorrencias[l].execucao
        /\ ocorrencias[i].chave = ocorrencias[l].chave
        /\ ocorrencias[j].chave = ocorrencias[l].chave
        /\ ocorrencias[i].cnt = 1 /\ ocorrencias[j].cnt = 2 /\ ocorrencias[l].cnt = 3
        /\ ocorrencias[i].nome_arquivo = NomeBase(ocorrencias[i])
        /\ startswith(ocorrencias[j].nome_arquivo, <<"N", "2", " ", "-", " ">>)
        /\ startswith(ocorrencias[l].nome_arquivo, <<"N", "3", " ", "-", " ">>)

LIT_MARIO_PASTORE == <<"M", "A", "R", "I", "O", " ", "P", "A", "S", "T", "O", "R", "E">>
LIT_8_000_00 == <<"8", ".", "0", "0", "0", ",", "0", "0">>
NOME_MARIO_PASTORE == <<"M", "A", "R", "I", "O", "_", "P", "A", "S", "T", "O", "R", "E", " ", "-", " ", "8", ".", "0", "0", "0", ",", "0", "0", ".", "p", "d", "f">>

\* C4: the page "Controle de Pagamento Beneficiário: MARIO PASTORE ... Valor principal:
\* R$ 8.000,00" with a payer alias gives the payee MARIO PASTORE, the amount 8.000,00, the
\* payer code of the alias and, as first occurrence, "MARIO_PASTORE - 8.000,00.pdf"
C4_FimAFim ==
    \A i \in 1..Len(ocorrencias) :
        ocorrencias[i].texto = extrair_texto_pdf(PaginaControle) =>
            /\ ocorrencias[i].chave[2] = LIT_MARIO_PASTORE
            /\ ocorrencias[i].chave[3] = LIT_8_000_00
            /\ ocorrencias[i].chave[1] = EMPRESAS(versao)[2].key
            /\ ocorrencias[i].cnt = 1 => ocorrencias[i].nome_arquivo = NOME_MARIO_PASTORE

(***************************************************************************)
(* More properties of extrair_beneficiario (checked under SpecBenef)       *)
(***************************************************************************)
\* C11: extrair_beneficiario returns the sentinel exactly when the text is empty or no
\* detector gave a validated candidate, then with benef_erro and without benef_metodo and
\* benef_score; with a candidate, debug_info has the method and score of the candidate
\* returned and no benef_erro
C11_Sentinela ==
    pc = "done_beneficiario" =>
        /\ resultado = FORNECEDOR_DESCONHECIDO <=> (texto = <<>> \/ candidatos = <<>>)
        /\ candidatos = <<>> =>
              /\ Has(debug_info, "benef_erro")
              /\ ~Has(debug_info, "benef_metodo") /\ ~Has(debug_info, "benef_score")
        /\ candidatos # <<>> =>
              /\ ~Has(debug_info, "benef_erro")
              /\ Has(debug_info, "benef_metodo") /\ Has(debug_info, "benef_score")
              /\ \E i \in 1..Len(candidatos) :
                    /\ candidatos[i].nome = resultado
                    /\ candidatos[i].metodo = debug_info["benef_metodo"]
                    /\ candidatos[i].score = debug_info["benef_score"]

\* a text that is not empty and from which no detector gets a valid name
C11_Witness ==
    /\ pc = "done_beneficiario"
    /\ texto # <<>>
    /\ resultado = FORNECEDOR_DESCONHECIDO
    /\ debug_info["benef_erro"] = "Nenhum candidato válido"

(***************************************************************************)
(* Study of the second attempt of main: extrair_beneficiario is applied to *)
(* a text of at most MaxFragsTratar of the lines below, then main decides  *)
(* whether tratar_fornecedor_desconhecido replaces the result.             *)
(***************************************************************************)
MaxFragsTratar == 2

FragmentosTratar == <<
    <<"C", "o", "n", "t", "a", ":", " ", "6", "3", ".", "4", "9", "8", "-", "0", " ", "/", " ", "A", "C", "M", "E", " ", "C", "O", "M", "E", "R", "C", "I", "O", " ", "L", "T", "D", "A", "\n">>,
    <<"P", "A", "R", "A", ":", " ", "j", "o", "s", "e", " ", "d", "a", " ", "s", "i", "l", "v", "a", " ", "-", " ", "\n">>,
    <<"P", "a", "d", "a", "r", "i", "a", " ", "C", "e", "n", "t", "r", "a", "l", "\n">>,
    <<"L", "O", "J", "A", " ", "D", "O", " ", "Z", "E", " ", "L", "T", "D", "A", " ", "S", "A", "\n">>,
    <<"A", "G", "E", "N", "C", "I", "A", " ", "1", "2", "3", " ", "C", "E", "N", "T", "R", "O", "\n">>,
    <<"a", "b", "c", "\n">>,
    <<"F", "a", "v", "o", "r", "e", "c", "i", "d", "o", ":", " ", "J", "O", "A", "O", " ", "S", "I", "L", "V", "A", " ", "V", "a", "l", "o", "r", " ", "\n">>,
    <<"C", "O", "N", "T", "A", "T", "O", " ", "C", "O", "M", "E", "R", "C", "I", "A", "L", "\n">>,
    <<"1", "2", "3", "4", "5", " ", "6", "7", "8", "9", "0", "\n">>,
    <<" ", " ", "M", "e", "r", "c", "a", "d", "o", " ", "B", "o", "m", " ", " ", "\n">>,
    <<"ß", " ", "P", "A", "R", "A", ":", " ", "X", " ", "C", "O", "N", "T", "A", " ", "A", "Z", "U", "L", " ", "L", "T", "D", "A", "\n">> >>

TextosTratar == Concats(FragmentosTratar, MaxFragsTratar)

\* the words of the test of the last resort
PalavrasTecnicas == <<
    <<"A", "G", "E", "N", "C", "I", "A">>,
    <<"C", "O", "N", "T", "A">>,
    <<"C", "P", "F">>,
    <<"C", "N", "P", "J">>,
    <<"C", "H", "A", "V", "E">>,
    <<"B", "A", "N", "C">>,
    <<"V", "A", "L", "O", "R">>,
    <<"L", "O", "T", "E">>,
    <<"N", "S", "U">>,
    <<"L", "I", "N", "H", "A">>,
    <<"B", "A", "R", "R", "A", "S">>,
    <<"A", "U", "T", "E", "N", "T", "I", "C", "A">> >>

InitTratar ==
    /\ versao \in Versoes
    /\ texto \in TextosTratar
    /\ pc = "extrair_beneficiario"
    /\ valores_encontrados = <<>>
    /\ candidatos = <<>>
    /\ unicos = <<>>
    /\ resultado = <<>>
    /\ debug_info = EmptyDict
    /\ entrada = {}
    /\ SemExecucao

\* main, after extrair_beneficiario: the second attempt; `candidatos` becomes the list of
\* tratar_fornecedor_desconhecido when the function is called
TratarFornecedorDesconhecido ==
    /\ pc = "done_beneficiario"
    /\ resultado' = SegundaTentativa(resultado, texto, versao)
    /\ candidatos' = IF ChamaTratar(resultado, versao) THEN TodosCandidatos(texto, versao) ELSE candidatos
    /\ pc' = "done_tratar"
    /\ UNCHANGED <<versao, texto, valores_encontrados, unicos, debug_info>>
    /\ UNCHANGED mainVars

NextTratar == ExtrairBeneficiario \/ TratarFornecedorDesconhecido

SpecTratar == InitTratar /\ [][NextTratar]_vars

(***************************************************************************)
(* Properties of the second attempt (checked under SpecTratar)             *)
(***************************************************************************)
\* the stripped, non-empty lines of the text
LinhasDoTexto ==
    {strip(ln) : ln \in {splitlines(texto)[k] : k \in 1..Len(splitlines(texto))}} \ {<<>>}

\* the last resort was used: the list holds an entry of score 50
UsouMaiorLinha == \E k \in 1..Len(candidatos) : candidatos[k][2] = 50

\* the second attempt was made: the first one had left benef_erro
Tentou == versao = "v16" /\ Has(debug_info, "benef_erro")

\* C12 (parts that hold): a result of extrair_beneficiario other than the sentinel is
\* never replaced; the last resort (score 50, below every score of padroes) is used
\* only when no pattern of padroes gave a valid candidate, its line is a line of the
\* text that passes validar_nome and holds none of the technical words as a whole
\* word, and the second attempt returns the sentinel when it has no candidate.
C12_SegundaTentativa ==
    pc = "done_tratar" =>
        /\ unicos # <<>> => resultado = Melhor(unicos).nome /\ candidatos # <<>>
        /\ \A k \in 1..Len(padroes) : padroes[k].score > 50
        /\ Tentou /\ UsouMaiorLinha =>
            /\ Len(candidatos) = 1
            /\ CandidatosPadroes(texto, upper(collapse_spaces(texto)), 1, versao) = <<>>
            /\ candidatos[1][1] \in LinhasDoTexto
            /\ validar_nome(candidatos[1][1], 5, versao)
            /\ ~search(PalavraTecnica_RE, upper(candidatos[1][1])).ok
            /\ resultado = candidatos[1][1]
        /\ Tentou /\ candidatos = <<>> => resultado = FORNECEDOR_DESCONHECIDO
        /\ Tentou /\ candidatos # <<>> => resultado = MelhorCandidato(candidatos)[1]

\* C12: as the sentence has it, the line of the last resort contains none of the
\* technical words
C12_SemJargao ==
    pc = "done_tratar" /\ Tentou /\ UsouMaiorLinha =>
        \A k \in 1..Len(PalavrasTecnicas) : ~Contains(upper(resultado), PalavrasTecnicas[k])

\* the last resort has been used
C12_Witness ==
    pc = "done_tratar" /\ Tentou /\ UsouMaiorLinha /\ resultado # FORNECEDOR_DESCONHECIDO

(***************************************************************************)
(* Study of the functions of one string: each is applied once to each of   *)
(* its inputs, by each of the two scripts.  `pc` names the function,       *)
(* `texto` is its argument and `resultado` what it returns.                *)
(***************************************************************************)
MaxPalavras == 2

\* the names of one to n of the words, joined by one space, and the empty name
RECURSIVE Juntas(_, _)
Juntas(palavras, n) ==
    IF n = 0 THEN {<<>>}
    ELSE LET menores == Juntas(palavras, n - 1) IN
         menores \cup {IF t = <<>> THEN palavras[i] ELSE t \o <<" ">> \o palavras[i] :
                       t \in menores, i \in 1..Len(palavras)}

PalavrasValidar == <<
    <<"M", "A", "R", "I", "O">>,
    <<"P", "A", "S", "T", "O", "R", "E">>,
    <<"a", "b">>,
    <<"1", "2", ".", "3", "4", "5">>,
    <<"c", "o", "n", "t", "a">>,
    <<"B", "a", "n", "c", "o">>,
    <<"S", "I", "C", "O", "O", "B">>,
    <<"C", "O", "O", "P", "E", "R", "A", "T", "I", "V", "A", " ", "C", "E", "N", "T", "R", "A", "L", " ", "D", "E", " ", "C", "R", "E", "D", "I", "T", "O">>,
    <<"u", "r", "b", "a", "n", "b", "o", "x">>,
    <<"S", "I", "S", "T", "E", "M", "A", " ", "D", "E", " ", "C", "O", "O", "P", "E", "R", "A", "T", "I", "V", "A", "S">>,
    <<"S", "y", "s", "t", "e", "m", "_", "B", "a", "n", "k">>,
    <<"Á", "V", "I", "L", "A">>,
    <<"*", "-", "*">> >>

NomesValidar == Juntas(PalavrasValidar, MaxPalavras)

\* the values of min_len in the calls of the two scripts
MinLens == {5, 8}

PalavrasEmpresa == <<
    <<"u", "r", "b", "a", "n", "b", "o", "x">>,
    <<"F", "a", "r", "m", "a", "u", "s", "a", " ", "L", "i", "f", "e", " ", "S", "c", "i", "e", "n", "c", "e">>,
    <<"F", "A", "R", "M", "A", "U", "S", "A", " ", "P", "H", "A", "R", "M", "A", "C", "E", "U", "T", "I", "C", "A", "L">>,
    <<"l", "i", "f", "e", "\n", "s", "c", "i", "e", "n", "c", "e">>,
    <<"c", "o", "m", "p", "a", "n", "y", " ", "a", " ", "n", "a", "m", "e">>,
    <<"C", "o", "m", "p", "a", "n", "y", " ", "B", " ", "N", "a", "m", "e">>,
    <<"C", "O", "M", "P", "A", "N", "Y", " ", "C", " ", "T", "R", "A", "D", "I", "N", "G", " ", "N", "A", "M", "E">>,
    <<"c", "o", "m", "p", "a", "n", "y", " ", "a", " ", "a", "l", "i", "a", "s">>,
    <<"P", "a", "d", "a", "r", "i", "a">>,
    <<"P", "a", "g", "a", "d", "o", "r", ":">>,
    <<"C", "O", "M", "P", "A", "N", "Y">>,
    <<"S", "C", "I", "E", "N", "C", "E">> >>

TextosEmpresa == Juntas(PalavrasEmpresa, MaxPalavras) \cup {NONE}

PalavrasSanitize == <<
    <<"J", "o", "ã", "o", " ", "&", " ", "C", "i", "a", ".", " ", "L", "t", "d", "a", "/", "M", "a", "t", "r", "i", "z">>,
    <<"A", "S", "S", "O", "C", "I", "A", "Ç", "Ã", "O", " ", "B", "R", "A", "S", "I", "L", "E", "I", "R", "A", " ", "D", "E", " ", "E", "M", "P", "R", "E", "S", "A", "S">>,
    <<"*", "*", "*">>,
    <<"a", ":", "b">>,
    <<"(", "x", ")">>,
    <<"J", "o", "s", "é", "_", "1", "-", "2">>,
    <<"[", "1", "]">>,
    <<"É", "?">>,
    <<"<", "|", ">">>,
    <<"ç", "ã", "o", "\n">>,
    <<"&", " ", "/", " ", ".">>,
    <<"x", "\"", "y", "\\", "z">> >>

NomesSanitize == Juntas(PalavrasSanitize, MaxPalavras) \cup {NONE}

\* the arguments of montar_nome
MaxContador == 3
BeneficiariosMontar ==
    {NONE, <<>>, LIT_MARIO_PASTORE_NOME, LIT_JOAO_CIA_NOME, FORNECEDOR_DESCONHECIDO}
ValoresMontar == {NONE, <<>>, VALOR_NAO_ENCONTRADO, LIT_50_00}
SnippetsMontar == {NONE, <<>>, LIT_123456, LIT_12}

\* the texts of limpar_texto: at most MaxLimpar characters
MaxLimpar == 3
CaracteresLimpar == {"a", "i", "f", "n", "ã", " ", LIG_FI, LIG_FL, LINE_SEP, NBSP, TIL}
TextosLimpar == SeqsAte(CaracteresLimpar, MaxLimpar) \cup {NONE}

InitFuncoes ==
    /\ versao \in Versoes
    /\ \/ pc = "validar_nome" /\ texto \in NomesValidar
       \/ pc = "identificar_empresa" /\ texto \in TextosEmpresa
       \/ pc = "sanitize_filename" /\ texto \in NomesSanitize
       \/ pc = "montar_nome" /\ texto \in BeneficiariosMontar
       \/ pc = "limpar_texto" /\ texto \in TextosLimpar
    /\ valores_encontrados = <<>>
    /\ candidatos = <<>>
    /\ unicos = <<>>
    /\ resultado = <<>>
    /\ debug_info = EmptyDict
    /\ entrada = {}
    /\ SemExecucao

ValidarNome ==
    /\ pc = "validar_nome"
    /\ \E min_len \in MinLens :
        resultado' = [min_len |-> min_len, ret |-> validar_nome(texto, min_len, versao)]
    /\ pc' = "done_validar_nome"
    /\ UNCHANGED <<versao, texto, valores_encontrados, candidatos, unicos, debug_info>>
    /\ UNCHANGED mainVars

IdentificarEmpresa ==
    /\ pc = "identificar_empresa"
    /\ resultado' = identificar_empresa(texto, versao)
    /\ pc' = "done_identificar_empresa"
    /\ UNCHANGED <<versao, texto, valores_encontrados, candidatos, unicos, debug_info>>
    /\ UNCHANGED mainVars

SanitizeFilename ==
    /\ pc = "sanitize_filename"
    /\ resultado' = sanitize_filename(texto)
    /\ pc' = "done_sanitize_filename"
    /\ UNCHANGED <<versao, texto, valores_encontrados, candidatos, unicos, debug_info>>
    /\ UNCHANGED mainVars

MontarNome ==
    /\ pc = "montar_nome"
    /\ \E valor \in ValoresMontar, cont \in 0..MaxContador, snippet \in SnippetsMontar :
        resultado' = [valor |-> valor, contador |-> cont, snippet |-> snippet,
                      ret |-> montar_nome(texto, valor, cont, snippet)]
    /\ pc' = "done_montar_nome"
    /\ UNCHANGED <<versao, texto, valores_encontrados, candidatos, unicos, debug_info>>
    /\ UNCHANGED mainVars

LimparTexto ==
    /\ pc = "limpar_texto"
    /\ resultado' = limpar_texto(texto)
    /\ pc' = "done_limpar_texto"
    /\ UNCHANGED <<versao, texto, valores_encontrados, candidatos, unicos, debug_info>>
    /\ UNCHANGED mainVars

NextFuncoes ==
    \/ ValidarNome
    \/ IdentificarEmpresa
    \/ SanitizeFilename
    \/ MontarNome
    \/ LimparTexto

SpecFuncoes == InitFuncoes /\ [][NextFuncoes]_vars

(***************************************************************************)
(* Properties of validar_nome (checked under SpecFuncoes)                  *)
(***************************************************************************)
\* the strings of empresas_sistema of the script
EmpresasSistema == IF versao = "v16" THEN empresas_sistema_v16 ELSE empresas_sistema_sanitized

\* the name contains one of the strings of empresas_sistema, whatever the case
TemEmpresa(nome) ==
    \E e \in 1..Len(EmpresasSistema) : Contains(upper(nome), EmpresasSistema[e])

\* the exception of the v16 script: a name of more than 25 characters with SICOOB,
\* without SISTEMA DE COOPERATIVAS and without another string of empresas_sistema
ExcecaoSicoob(nome) ==
    /\ versao = "v16"
    /\ Len(upper(nome)) > 25
    /\ Contains(upper(nome), LIT_SICOOB)
    /\ ~Contains(upper(nome), LIT_SISTEMA_DE_COOPERATIVAS)
    /\ \A e \in 1..Len(EmpresasSistema) :
        EmpresasSistema[e] # LIT_SICOOB => ~Contains(upper(nome), EmpresasSistema[e])

\* C13 (as stated): validar_nome returns false for every name that contains, whatever
\* the case, one of the strings of empresas_sistema, whatever its length and the rest
\* of it.
C13_Original ==
    pc = "done_validar_nome" /\ TemEmpresa(texto) => resultado.ret = FALSE

\* C13 (amended): validar_nome returns false for every name that contains, whatever
\* the case, one of the strings of empresas_sistema, except the names of more than 25
\* characters with SICOOB of the v16 script.
C13_EmpresasSistema ==
    pc = "done_validar_nome" /\ TemEmpresa(texto) /\ ~ExcecaoSicoob(texto) => resultado.ret = FALSE

\* a name of two words with a string of empresas_sistema in lower case has been rejected
C13_Witness ==
    /\ pc = "done_validar_nome"
    /\ TemEmpresa(texto) /\ ~Contains(texto, LIT_SICOOB)
    /\ SplitCount(texto) >= 2 /\ Len(texto) >= 8
    /\ \A e \in 1..Len(EmpresasSistema) : ~Contains(texto, EmpresasSistema[e])
    /\ resultado.ret = FALSE

\* the letters: those of [a-zA-Z] and the accented ones
Letras == AZ \cup Accented

\* the strings of rejeitar of the script
Rejeitar == IF versao = "v16" THEN rejeitar_v16 ELSE rejeitar_sanitized

\* the name is one of the strings of rejeitar, or starts with one followed by a space
TemJargao(nome) ==
    \E r \in 1..Len(Rejeitar) :
        lower(nome) = Rejeitar[r] \/ startswith(lower(nome), Rejeitar[r] \o <<" ">>)

\* a run of at least n consecutive characters of the set
TemSequencia(nome, S, n) ==
    \E i \in 1..(Len(nome) - n + 1) : \A j \in i..(i + n - 1) : nome[j] \in S

\* the six rules, with the characters of the set S taken as the alphabetic ones
Regras(nome, min_len, S) ==
    /\ Len(nome) >= min_len
    /\ \E i \in 1..Len(nome) : nome[i] \in S
    /\ ~(\A i \in 1..Len(nome) : nome[i] \in Digit \cup Punct \cup WS)
    /\ ~TemEmpresa(nome)
    /\ ~TemJargao(nome)
    /\ SplitCount(nome) >= 2 \/ TemSequencia(nome, S, 5)

\* C14: validar_nome(nome, min_len) returns true exactly when the six rules hold:
\* length, one alphabetic character, not only digits, punctuation and whitespace, no
\* string of empresas_sistema, no leading string of rejeitar, and two words or five
\* consecutive letters.
C14_Regras ==
    pc = "done_validar_nome" => (resultado.ret = TRUE <=> Regras(texto, resultado.min_len, Letras))

\* the same with [a-zA-Z] for the alphabetic characters and the exception of SICOOB
C14_RegrasAscii ==
    pc = "done_validar_nome" /\ ~ExcecaoSicoob(texto) =>
        (resultado.ret = TRUE <=> Regras(texto, resultado.min_len, AZ))

(***************************************************************************)
(* Properties of identificar_empresa (checked under SpecFuncoes)           *)
(***************************************************************************)
\* the string occurs in the text at position i, whatever the case
OcorreEm(t, lit, i) ==
    /\ i + Len(lit) - 1 <= Len(t)
    /\ \A j \in 1..Len(lit) : lower(<<t[i + j - 1]>>) = lower(<<lit[j]>>)

\* an alias of the k-th entry of EMPRESAS occurs in the text
AliasOcorre(k) ==
    /\ texto # NONE
    /\ \E a \in 1..Len(EMPRESAS(versao)[k].aliases) :
        \E i \in 1..Len(texto) : OcorreEm(texto, EMPRESAS(versao)[k].aliases[a], i)

\* C15: identificar_empresa returns the first key of EMPRESAS, in the order of the
\* table, one of whose aliases occurs in the text whatever the case, and 'OUTROS'
\* when none does (also for an empty text and for None).
C15_PrimeiraEmpresa ==
    pc = "done_identificar_empresa" =>
        /\ resultado = LIT_OUTROS <=> \A k \in 1..Len(EMPRESAS(versao)) : ~AliasOcorre(k)
        /\ \A k \in 1..Len(EMPRESAS(versao)) :
            AliasOcorre(k) /\ (\A j \in 1..(k - 1) : ~AliasOcorre(j)) => resultado = EMPRESAS(versao)[k].key
        /\ texto \in {NONE, <<>>} => resultado = LIT_OUTROS

\* aliases of two entries occur, the later entry's first in the text, and the key of
\* the earlier entry has been returned
C15_Witness ==
    /\ pc = "done_identificar_empresa"
    /\ \E k1, k2 \in 1..Len(EMPRESAS(versao)) :
        /\ k1 < k2 /\ AliasOcorre(k1) /\ AliasOcorre(k2)
        /\ \E a \in 1..Len(EMPRESAS(versao)[k2].aliases) : OcorreEm(texto, EMPRESAS(versao)[k2].aliases[a], 1)
        /\ resultado = EMPRESAS(versao)[k1].key

(***************************************************************************)
(* Properties of sanitize_filename (checked under SpecFuncoes)             *)
(***************************************************************************)
\* the characters of a sanitized name
CaracteresDeNome == AsciiUpper \cup AsciiLower \cup Digit \cup {"_", "-", "(", ")", "[", "]"}

\* the characters of the name that remain: not illegal, and characters of a sanitized
\* name once the accent is taken away
Restantes(name) ==
    IF name = NONE THEN <<>>
    ELSE SelectSeq(name, LAMBDA c : SemAcento(c) \in CaracteresDeNome /\ c \notin Ilegais)

LIT_JOAO_CIA_LIMPO == <<"J", "o", "a", "o", "_", "C", "i", "a", "_", "L", "t", "d", "a", "M", "a", "t", "r", "i", "z">>

\* C16: sanitize_filename returns a non-empty string of at most MAX_NAME_LEN
\* characters, all of them letters, digits, '_', '-', parentheses or brackets;
\* 'FORNECEDOR_DESCONHECIDO' when no character remains; 'João & Cia. Ltda/Matriz'
\* loses its accent, '&', '.' and '/'.
C16_NomeDeArquivo ==
    pc = "done_sanitize_filename" =>
        /\ resultado # <<>>
        /\ Len(resultado) <= MAX_NAME_LEN
        /\ \A i \in 1..Len(resultado) : resultado[i] \in CaracteresDeNome
        /\ Restantes(texto) = <<>> => resultado = FORNECEDOR_DESCONHECIDO
        /\ Restantes(texto) # <<>> =>
            /\ resultado[1] = SemAcento(Restantes(texto)[1])
            /\ \A i \in 1..Len(resultado) :
                resultado[i] = "_" \/ \E k \in 1..Len(texto) : SemAcento(texto[k]) = resultado[i]
        /\ texto = LIT_JOAO_CIA_NOME => resultado = LIT_JOAO_CIA_LIMPO

\* a name of more than MAX_NAME_LEN characters with an accent has been cut
C16_Witness ==
    /\ pc = "done_sanitize_filename"
    /\ texto # NONE /\ Len(texto) > MAX_NAME_LEN
    /\ \E i \in 1..Len(texto) : texto[i] \in Accented
    /\ Len(resultado) = MAX_NAME_LEN

(***************************************************************************)
(* Properties of montar_nome (checked under SpecFuncoes)                   *)
(***************************************************************************)
\* the marker of the occurrences after the first
Marcador(cont) == IF cont > 1 THEN PIX_PREFIX \o Str(cont) \o LIT_SEP ELSE <<>>

\* the name without the marker and without '.pdf'
BaseDoNome(r) ==
    Slice(r.ret, Len(Marcador(r.contador)) + 1, Len(r.ret) - Len(LIT_PDF) + 1)

\* C17: after the marker of the occurrence, the name is '<sanitized beneficiary> -
\* <amount>.pdf' without a snippet and '<sanitized beneficiary> - <snippet> -
\* <amount>.pdf' with one, with 'VALOR_NAO_ENCONTRADO' for an empty amount; it always
\* ends in '.pdf', whatever the beneficiary, amount and snippet (str or None) and the
\* number of the occurrence.
C17_Nome ==
    pc = "done_montar_nome" =>
        /\ endswith(resultado.ret, LIT_PDF)
        /\ StartsAt(resultado.ret, 1, Marcador(resultado.contador))
        /\ LET amount == IF resultado.valor \in {NONE, <<>>} THEN VALOR_NAO_ENCONTRADO ELSE resultado.valor
           IN  IF resultado.snippet \in {NONE, <<>>}
               THEN BaseDoNome(resultado) = sanitize_filename(texto) \o LIT_SEP \o amount
               ELSE BaseDoNome(resultado) =
                        sanitize_filename(texto) \o LIT_SEP \o resultado.snippet \o LIT_SEP \o amount

\* a name with a snippet and without an amount has been built
C17_Witness ==
    /\ pc = "done_montar_nome"
    /\ texto = LIT_JOAO_CIA_NOME
    /\ resultado.valor = <<>> /\ resultado.snippet = LIT_123456 /\ resultado.contador = 1
    /\ resultado.ret = LIT_JOAO_CIA_LIMPO \o LIT_SEP \o LIT_123456 \o LIT_SEP \o VALOR_NAO_ENCONTRADO \o LIT_PDF

(***************************************************************************)
(* Properties of limpar_texto (checked under SpecFuncoes)                  *)
(***************************************************************************)
\* C18: limpar_texto applied to its own result returns that result, it returns a text
\* for every text, and the empty text for the empty text and for None.
C18_Idempotente ==
    pc = "done_limpar_texto" =>
        /\ limpar_texto(resultado) = resultado
        /\ resultado # NONE
        /\ texto \in {<<>>, NONE} => resultado = <<>>
        /\ \A i \in 1..Len(resultado) : resultado[i] \notin {LIG_FI, LIG_FL, LINE_SEP, NBSP}

\* a text with a ligature followed by a tilde has been normalized, and the result is
\* another text
C18_Witness ==
    /\ pc = "done_limpar_texto"
    /\ texto # NONE /\ Len(texto) >= 2
    /\ \E i \in 1..(Len(texto) - 1) : texto[i] = LIG_FI /\ texto[i + 1] = TIL
    /\ resultado # texto

(***************************************************************************)
(* Pages without text (checked under Spec)                                 *)
(***************************************************************************)
\* the pages processed in the current run
DaExecucao == {i \in 1..Len(ocorrencias) : ocorrencias[i].execucao = execucao}

\* the files of the output folder that hold the page of the i-th occurrence
ArquivosDe(i) ==
    {f \in saida : f.conteudo = [execucao |-> ocorrencias[i].execucao,
                                 doc |-> ocorrencias[i].doc, pagina |-> ocorrencias[i].pagina]}

\* C19: a page without text is processed like any other: its payee, amount and payer
\* are 'FORNECEDOR_DESCONHECIDO', 'VALOR_NAO_ENCONTRADO' and 'OUTROS', it takes an
\* occurrence number, and the pages after it are processed; every part processed so
\* far has exactly one file in the output folder and one row of the log, and at the
\* end of a run every part has been processed.
C19_PaginaVazia ==
    /\ \A i \in 1..Len(ocorrencias) :
        /\ ocorrencias[i].texto = <<>> =>
            /\ ocorrencias[i].chave = <<LIT_OUTROS, FORNECEDOR_DESCONHECIDO, VALOR_NAO_ENCONTRADO>>
            /\ ocorrencias[i].cnt >= 1
            /\ endswith(ocorrencias[i].nome_arquivo,
                        FORNECEDOR_DESCONHECIDO \o LIT_SEP \o VALOR_NAO_ENCONTRADO \o LIT_PDF)
        /\ Cardinality(ArquivosDe(i)) = 1
        /\ \A f \in ArquivosDe(i) : f.pasta = ocorrencias[i].chave[1] /\ f.nome = ocorrencias[i].dest
    /\ pc = "loop" =>
        /\ Len(arquivos_log) = idx
        /\ Cardinality(DaExecucao) = idx
        /\ \A k \in 1..idx :
            /\ arquivos_log[k].source = partes[k]
            /\ \E i \in DaExecucao : ocorrencias[i].part = partes[k] /\ ocorrencias[i].dest = arquivos_log[k].nome_final
    /\ pc = "main" /\ execucao > 0 =>
        /\ Len(log_csv) = Len(partes)
        /\ Len(partes) = Cardinality(UNION {separar_em_partes(d) : d \in Originais(entrada)})
        /\ \A k \in 1..Len(partes) : log_csv[k].source = partes[k]

\* a run is over in which a page without text, the second of its key, came before a page
\* with text
C19_Witness ==
    /\ pc = "main" /\ execucao > 0
    /\ \E i, j \in DaExecucao :
        /\ i < j
        /\ ocorrencias[i].texto = <<>> /\ ocorrencias[i].cnt = 2
        /\ ocorrencias[j].texto # <<>>

(***************************************************************************)
(* The names of the files of one run (checked under Spec)                  *)
(***************************************************************************)
\* C20: within one run, two pages of the same payer never get the same name from
\* montar_nome.
C20_NomesUnicos ==
    \A i, j \in 1..Len(ocorrencias) :
        /\ i # j
        /\ ocorrencias[i].execucao = ocorrencias[j].execucao
        /\ ocorrencias[i].chave[1] = ocorrencias[j].chave[1]
        => ocorrencias[i].nome_arquivo # ocorrencias[j].nome_arquivo

(***************************************************************************)
(* The counter from one run to the next (checked under Spec)               *)
(***************************************************************************)
\* the i-th occurrence is the first of its key in its run
PrimeiraDaChave(i) ==
    \A j \in 1..(i - 1) :
        ocorrencias[j].execucao = ocorrencias[i].execucao => ocorrencias[j].chave # ocorrencias[i].chave

\* C21: when the loop of a run starts the counter holds no count, and the first page of
\* a key in a run gets occurrence number 1, whatever the runs before it processed or
\* left in the output folder.
C21_ContadorPorExecucao ==
    /\ pc = "loop" /\ idx = 0 => \A k \in DOMAIN contador : contador[k] = 0
    /\ \A i \in 1..Len(ocorrencias) :
        PrimeiraDaChave(i) =>
            /\ ocorrencias[i].cnt = 1
            /\ ocorrencias[i].nome_arquivo = NomeBase(ocorrencias[i])

\* in the second run, the first page of a key that the first run had counted twice gets
\* number 1, and its name is already in the output folder
C21_Witness ==
    \E i, j, l \in 1..Len(ocorrencias) :
        /\ ocorrencias[i].execucao = 1 /\ ocorrencias[j].execucao = 1 /\ ocorrencias[l].execucao = 2
        /\ ocorrencias[i].chave = ocorrencias[l].chave /\ ocorrencias[j].chave = ocorrencias[l].chave
        /\ ocorrencias[j].cnt = 2
        /\ PrimeiraDaChave(l) /\ ocorrencias[l].cnt = 1
        /\ ocorrencias[l].dest # ocorrencias[l].nome_arquivo

(***************************************************************************)
(* The names handed to main and the validator (checked under SpecTratar)   *)
(***************************************************************************)
LIT_CONTA_AZUL_LTDA == <<"C", "O", "N", "T", "A", " ", "A", "Z", "U", "L", " ", "L", "T", "D", "A">>

\* the name left by the first attempt satisfies validar_nome with min_len 5 (holds)
C22_PrimeiraTentativa ==
    pc = "done_beneficiario" /\ resultado # FORNECEDOR_DESCONHECIDO => validar_nome(resultado, 5, versao)

\* C22: every name that extrair_beneficiario or tratar_fornecedor_desconhecido returns,
\* other than the sentinel, satisfies validar_nome with min_len 5.
C22_NomesValidos ==
    pc \in {"done_beneficiario", "done_tratar"} /\ resultado # FORNECEDOR_DESCONHECIDO
        => validar_nome(resultado, 5, versao)

\* the second attempt returned a name that begins with the jargon word CONTA
C22_Witness ==
    /\ pc = "done_tratar" /\ Tentou
    /\ resultado = LIT_CONTA_AZUL_LTDA
    /\ ~validar_nome(resultado, 5, versao)

\* on a text without ESZETT every returned name satisfies the validator (holds)
C22_SemEszett == ~Contains(texto, <<ESZETT>>) => C22_NomesValidos

(***************************************************************************)
(* The priority-0 detectors of v16 (checked under SpecValor)               *)
(***************************************************************************)
\* the candidates of prioridade 0
PrioridadeZero == {i \in 1..Len(valores_encontrados) : valores_encontrados[i].prioridade = 0}

\* the text captured by a detector, when it is a number greater than zero
CapturaPositiva(re) ==
    The({ IF m.ok /\ NumeroPositivo(group1(texto, m)) THEN <<group1(texto, m)>> ELSE <<>> :
          m \in {search(re, texto)} })

\* C23: in v16, when the detector 'value after a tax identifier and before R$0,00', or
\* the detector 'value before R$0,00' (tried only when the first gave no candidate),
\* yields a positive value, extrair_valor returns exactly the captured text, thousands
\* separators kept, whatever the patterns of prioridade 1..5 match and even when one of
\* them parses to the same number; there is at most one candidate of prioridade 0.
C23_BradescoPrimeiro ==
    pc = "done" =>
        /\ Cardinality(PrioridadeZero) <= 1
        /\ versao # "v16" => PrioridadeZero = {}
        /\ versao = "v16" =>
              \E c1 \in {CapturaPositiva(ValorAposCnpj_RE)} :
                 \E c2 \in {CapturaPositiva(ValorAntesTarifa_RE)} :
                    /\ c1 # <<>> => resultado = c1[1]
                    /\ c1 = <<>> /\ c2 # <<>> => resultado = c2[1]
                    /\ c1 = <<>> /\ c2 = <<>> => PrioridadeZero = {}
                    /\ \A i \in PrioridadeZero :
                          /\ valores_encontrados[i].valor = resultado
                          /\ valores_encontrados[i].tipo =
                                IF c1 # <<>> THEN "bradesco_pix_apos_cnpj" ELSE "bradesco_pix_antes_tarifa"

\* C23 witness: '8.000,00' follows a CPF and precedes 'R$0,00', 'Valor do pagamento:
\* R$ 8.000,00' gives a candidate of prioridade 2 of the same number, written '8000,00';
\* the value returned is '8.000,00'
C23_Witness ==
    /\ pc = "done" /\ versao = "v16"
    /\ texto = FragmentosValor[7] \o FragmentosValor[8]
    /\ resultado = LIT_8_000_00
    /\ \E i \in PrioridadeZero :
          \E j \in 1..Len(valores_encontrados) :
             /\ valores_encontrados[j].prioridade = 2
             /\ valores_encontrados[j].float = valores_encontrados[i].float
             /\ valores_encontrados[j].valor # resultado

\* the second detector gave the candidate: the first found a value of zero after the CNPJ
C23_WitnessAlternativo ==
    /\ pc = "done" /\ versao = "v16"
    /\ CapturaPositiva(ValorAposCnpj_RE) = <<>>
    /\ search(ValorAposCnpj_RE, texto).ok
    /\ \E i \in PrioridadeZero : valores_encontrados[i].tipo = "bradesco_pix_antes_tarifa"

(***************************************************************************)
(* The destination of a copy (checked under Spec)                          *)
(***************************************************************************)
\* the n-th name tried by the loop of the suffix: nome_arquivo, base_1.pdf, base_2.pdf, ...
NomeTentado(nome_arquivo, n) ==
    IF n = 0 THEN nome_arquivo ELSE SemSufixo(nome_arquivo) \o <<"_">> \o Str(n) \o LIT_PDF

\* before the i-th page was copied, a page had been copied to `nome` in its folder
JaCopiado(i, nome) ==
    \E j \in 1..(i - 1) :
        ocorrencias[j].chave[1] = ocorrencias[i].chave[1] /\ ocorrencias[j].dest = nome

\* C24: main never overwrites a file of the output folder. Every page processed, in
\* this run or in an earlier one, still has its own file at its destination, and no
\* two pages share a destination; the destination is the first of nome_arquivo,
\* base_1.pdf, base_2.pdf, ... that did not exist when the page was copied, so it is
\* the name built by montar_nome exactly when that name was free; the row of the CSV
\* holds the destination's base name.
C24_SemSobrescrita ==
    /\ Cardinality(saida) = Len(ocorrencias)
    /\ \A i \in 1..Len(ocorrencias) :
        /\ \E f \in ArquivosDe(i) : f.pasta = ocorrencias[i].chave[1] /\ f.nome = ocorrencias[i].dest
        /\ \A j \in 1..Len(ocorrencias) :
              i # j => <<ocorrencias[i].chave[1], ocorrencias[i].dest>>
                        # <<ocorrencias[j].chave[1], ocorrencias[j].dest>>
        /\ \E n \in 0..(i - 1) :
              /\ ocorrencias[i].dest = NomeTentado(ocorrencias[i].nome_arquivo, n)
              /\ \A m \in 0..(n - 1) : JaCopiado(i, NomeTentado(ocorrencias[i].nome_arquivo, m))
              /\ ocorrencias[i].dest # ocorrencias[i].nome_arquivo <=> n >= 1
    /\ Len(arquivos_log) <= Len(ocorrencias)
    /\ \A k \in 1..Len(arquivos_log) :
          \E o \in {ocorrencias[Len(ocorrencias) - Len(arquivos_log) + k]} :
             /\ o.execucao = execucao
             /\ arquivos_log[k].source = o.part
             /\ arquivos_log[k].nome_final = o.dest
    /\ pc = "main" /\ execucao > 0 => log_csv = arquivos_log

\* C24 witness: a run is over in which a page found its name and the names with the
\* suffixes _1 and _2 taken, by pages of this run and of the run before, and went to the
\* name with the suffix _3, which is the name in the CSV
C24_Witness ==
    /\ pc = "main" /\ execucao > 1
    /\ \E k \in 1..Len(log_csv) :
          \E i \in DaExecucao :
             /\ ocorrencias[i].part = log_csv[k].source
             /\ log_csv[k].nome_final = NomeTentado(ocorrencias[i].nome_arquivo, 3)
             /\ log_csv[k].nome_final # ocorrencias[i].nome_arquivo
             /\ \E j \in DaExecucao :
                   /\ j < i /\ ocorrencias[j].chave[1] = ocorrencias[i].chave[1]
                   /\ ocorrencias[j].dest = NomeTentado(ocorrencias[i].nome_arquivo, 2)
             /\ \E j \in 1..Len(ocorrencias) :
                   /\ ocorrencias[j].execucao < execucao /\ ocorrencias[j].chave[1] = ocorrencias[i].chave[1]
                   /\ ocorrencias[j].dest = ocorrencias[i].nome_arquivo

====
